---- MODULE Spec2Model ----
(***************************************************************************)
(* A model of the mathru numerical library: the adaptive-step ODE          *)
(* integrators (AdaptiveStepper::solve, DormandPrince54::solve), the       *)
(* implicit Euler step and the Cholesky decomposition.                     *)
(*                                                                         *)
(* Scalars (the generic float-like type T) are fixed-point integers: the   *)
(* integer v stands for the real number v / One.  Products and quotients   *)
(* are rounded towards zero, x.pow(1/r) is the r-th root rounded down.     *)
(* A division of a positive number by zero gives Inf and 0 * Inf gives     *)
(* NaN, as for f64.                                                        *)
(***************************************************************************)
EXTENDS Integers, Sequences, FiniteSets, TLC

\* ------------------------------------------------------------------------
\* Bounds of the model
\* ------------------------------------------------------------------------
\* The integer that stands for T::one(): the resolution of the scalars.
One == 100
\* Largest n_max a stepper is constructed with.
MaxNMax == 2
\* Cap on the number of do_step calls explored in one solve call.
MaxCalls == 3

\* ------------------------------------------------------------------------
\* Scalar arithmetic
\* ------------------------------------------------------------------------
Abs(a) == IF a < 0 THEN -a ELSE a

Max2(a, b) == IF a >= b THEN a ELSE b

\* Quotient rounded towards zero (b # 0).
SDiv(a, b) ==
    IF (a >= 0) = (b > 0) THEN Abs(a) \div Abs(b) ELSE -(Abs(a) \div Abs(b))

FMul(a, b) == SDiv(a * b, One)

FDiv(a, b) == SDiv(a * One, b)

\* T::from_f64(p / q) and T::from_u8(p) (q = 1)
FromRatio(p, q) == SDiv(p * One, q)

\* Product of two non-negative scalars rounded up.
FMulUp(a, b) == (a * b + One - 1) \div One

\* y^r <= x for y >= 0, r >= 1, x >= 0, computed by repeated multiplication
\* (rounded up, so that only 0 is a root of 0) and abandoned as soon as a
\* power of some y >= One exceeds x.
RECURSIVE PowLeq(_, _, _, _)
PowLeq(p, y, r, x) ==
    IF r = 1 THEN p <= x
    ELSE IF y >= One /\ p > x THEN FALSE
    ELSE PowLeq(FMulUp(p, y), y, r - 1, x)

RECURSIVE RootSearch(_, _, _, _)
RootSearch(lo, hi, x, r) ==
    IF hi - lo <= 1 THEN lo
    ELSE LET mid == (lo + hi) \div 2
         IN  IF PowLeq(mid, mid, r, x) THEN RootSearch(mid, hi, x, r)
             ELSE RootSearch(lo, mid, x, r)

\* x.pow(1/r) for x >= 0: the largest y with y^r <= x.
FRoot(x, r) == RootSearch(0, Max2(x, One) + 1, x, r)

\* f64 infinity and NaN, as they arise in calc_step_size.
Inf == 1000000000
NaN == 1000000001

\* T::min as f64::min: a NaN operand is ignored, Inf is the largest value.
FMin(a, b) == IF a = NaN THEN b ELSE IF b = NaN THEN a ELSE IF a <= b THEN a ELSE b

\* ------------------------------------------------------------------------
\* Vectors: a Vector wraps an m x n Matrix with m = 1 (row) or n = 1 (column),
\* stored column-major.
\* ------------------------------------------------------------------------
ColVec(s) == [m |-> Len(s), n |-> 1, data |-> s]

RowVec(s) == [m |-> 1, n |-> Len(s), data |-> s]

\* Matrix::get(i, j), 0-based; "panic" when an assertion fails.
MatGet(a, i, j) ==
    IF i < a.m /\ j < a.n THEN a.data[j * a.m + i + 1] ELSE "panic"

\* Vector::get(i)
VecGet(v, i) ==
    IF v.m = 1 THEN MatGet(v, 0, i)
    ELSE IF v.n = 1 THEN MatGet(v, i, 0)
    ELSE "panic"

\* Element-wise operations keep the shape of the left operand.
VecAdd(a, b) == [a EXCEPT !.data = [i \in DOMAIN a.data |-> a.data[i] + b.data[i]]]

VecSub(a, b) == [a EXCEPT !.data = [i \in DOMAIN a.data |-> a.data[i] - b.data[i]]]

VecScale(a, k) == [a EXCEPT !.data = [i \in DOMAIN a.data |-> FMul(a.data[i], k)]]

VecDivS(a, k) == [a EXCEPT !.data = [i \in DOMAIN a.data |-> FDiv(a.data[i], k)]]

VecAddS(a, k) == [a EXCEPT !.data = [i \in DOMAIN a.data |-> a.data[i] + k]]

Last(s) == s[Len(s)]

\* ------------------------------------------------------------------------
\* State
\* ------------------------------------------------------------------------
VARIABLES
    solver,     \* "adaptive" (AdaptiveStepper::solve) or "dp54" (DormandPrince54::solve)
    cfg,        \* the fields of the stepper
    prob,       \* the ODE problem: time span, initial condition, derivative
    order,      \* method.order() of the method handed to AdaptiveStepper::solve
    pc,         \* "start", "loop", "done" or "panic"
    t_n, x_n, h, n, t_vec, res_vec,   \* the locals of solve
    err,        \* the error norm of the last proposed step
    y_new, y_hat,  \* the two estimates of the last proposed step
    calls,      \* number of do_step calls so far
    ret         \* "none", "Ok" or "Err"

odeVars == <<solver, cfg, prob, order, pc, t_n, x_n, h, n, t_vec, res_vec,
             err, y_new, y_hat, calls, ret>>

\* The implicit Euler solve call (ImplicitEuler::solve)
VARIABLES
    ie_prob,    \* the implicit ODE problem
    ie_h,       \* the step size of the stepper
    ie_pc,      \* "idle", "start", "loop", "done" or "panic"
    ie_t, ie_x, ie_tvec, ie_xvec,   \* the locals of the stepper's solve
    ie_helper,  \* the ImplicitEulerHelper of the last do_step
    ie_guess,   \* the start value handed to find_root by the last do_step
    ie_z, ie_iter,  \* the iterate of find_root and the number of passes made
    ie_root,    \* "none", or the outcome "Ok" / "Err" of the last find_root
    ie_ret      \* "none", "Ok" or "Err"

ieVars == <<ie_prob, ie_h, ie_pc, ie_t, ie_x, ie_tvec, ie_xvec, ie_helper,
            ie_guess, ie_z, ie_iter, ie_root, ie_ret>>

\* The Cholesky decomposition call (Matrix::dec_cholesky)
VARIABLES
    ch_backend, \* the build feature: "native" or "blaslapack"
    ch_a,       \* the matrix decomposed
    ch_pc,      \* "idle", "start", "done" or "panic"
    ch_ret      \* the Option returned and what the run met

chVars == <<ch_backend, ch_a, ch_pc, ch_ret>>

\* A call of another operation of the linear algebra (decomposition, solve,
\* inverse, arithmetic operator)
VARIABLES
    la_op,      \* the operation called, "idle" when none
    la_backend, \* the build feature: "native" or "blaslapack"
    la_a,       \* the matrix operated on (self)
    la_b,       \* the other operand, <<>> when there is none
    la_pc,      \* "idle", "start", "done" or "panic"
    la_ret      \* what the call returned, <<>> before it returns

laVars == <<la_op, la_backend, la_a, la_b, la_pc, la_ret>>

vars == <<odeVars, ieVars, chVars, laVars>>

\* ------------------------------------------------------------------------
\* AdaptiveStepper
\* ------------------------------------------------------------------------
\* Clip without the clipping: the step size is used as it is.
ClipNone(hh, rem) == hh

\* h.min(t_stop - t_n)
Clip(hh, rem) == FMin(hh, rem)

\* q = max(order.0, order.1); the exponent l = 1 / (q + 1) is kept as the
\* degree q + 1 of the root.
FirstOrder(o) == o[1]

MaxOrder(o) == Max2(o[1], o[2])

RECURSIVE SumSq(_, _, _, _, _)
SumSq(c, y, yh, i, cnt) ==
    IF i >= cnt THEN 0
    ELSE LET y_i == VecGet(y, i)
             y_hat_i == VecGet(yh, i)
             sc == c.abs_tol + FMul(Max2(Abs(y_i), Abs(y_hat_i)), c.rel_tol)
             k == FDiv(y_i - y_hat_i, sc)
         IN  FMul(k, k) + SumSq(c, y, yh, i + 1, cnt)

\* AdaptiveStepper::calc_error: the loop runs over 0..n with (_m, n) = y.dim()
CalcError(c, y, yh) ==
    LET cnt == y.n
    IN  FRoot(FDiv(SumSq(c, y, yh, 0, cnt), FromRatio(cnt, 1)), 2)

ASAcceptStrict(e) == e < One

ASAccept(e) == e <= One

\* s = fac * (1 / err).pow(l), then the two clamps
StepFactor(c, o, e) ==
    LET s0 == FMul(c.fac, FRoot(FDiv(One, e), MaxOrder(o) + 1))
        s1 == IF s0 < c.fac_min THEN c.fac_min ELSE s0
    IN  IF s1 > c.fac_max THEN c.fac_max ELSE s1

\* the step size after an iteration that proposed a step of size hc
NextStep(c, o, e, hc) == IF e # 0 THEN FMul(StepFactor(c, o, e), hc) ELSE hc

\* ------------------------------------------------------------------------
\* DormandPrince54
\* ------------------------------------------------------------------------
\* prob.func(t, x): the derivative of the problems explored, a * x + b * t
\* in every component.
Func(p, t, x) == VecAddS(VecScale(x, p.a), FMul(p.b, t))

\* The time at which DormandPrince54::do_step evaluates prob.func for k_2:
\* *t_n + *h / T::from_f64(1.0 / 5.0)
DPStage2Time(t, hh) == t + FDiv(hh, FromRatio(1, 5))

\* The state at which DormandPrince54::do_step evaluates prob.func for k_2:
\* x_n + &(&k_1 / &T::from_f64(1.0 / 5.0))
DPStage2State(x, k_1) == VecAdd(x, VecDivS(k_1, FromRatio(1, 5)))

\* DormandPrince54::do_step: the pair (rkdp4, rkdp5)
DPDoStep(p, t, x, hh) ==
    LET k_1 == VecScale(Func(p, t, x), hh)
        k_2 == VecScale(Func(p, DPStage2Time(t, hh), DPStage2State(x, k_1)), hh)
        k_31 == VecAdd(x, VecScale(k_1, FromRatio(3, 40)))
        k_32 == VecAdd(k_31, VecScale(k_2, FromRatio(9, 40)))
        k_3 == VecScale(Func(p, t + FMul(hh, FromRatio(3, 10)), k_32), hh)
        k_41 == VecAdd(x, VecScale(k_1, FromRatio(44, 45)))
        k_42 == VecSub(k_41, VecScale(k_2, FromRatio(56, 15)))
        k_43 == VecAdd(k_42, VecScale(k_3, FromRatio(32, 9)))
        k_4 == VecScale(Func(p, t + FMul(hh, FromRatio(4, 5)), k_43), hh)
        k_51 == VecAdd(x, VecScale(k_1, FromRatio(19372, 6561)))
        k_52 == VecSub(k_51, VecScale(k_2, FromRatio(25360, 2187)))
        k_53 == VecAdd(k_52, VecScale(k_3, FromRatio(64448, 6561)))
        k_54 == VecSub(k_53, VecScale(k_4, FromRatio(212, 729)))
        k_5 == VecScale(Func(p, t + FMul(hh, FromRatio(8, 9)), k_54), hh)
        k_61 == VecAdd(x, VecScale(k_1, FromRatio(9017, 3168)))
        k_62 == VecSub(k_61, VecScale(k_2, FromRatio(355, 33)))
        k_63 == VecAdd(k_62, VecScale(k_3, FromRatio(46732, 5247)))
        k_64 == VecAdd(k_63, VecScale(k_4, FromRatio(49, 176)))
        k_65 == VecSub(k_64, VecScale(k_5, FromRatio(5103, 18656)))
        k_6 == VecScale(Func(p, t + hh, k_65), hh)
        k_71 == VecAdd(x, VecScale(k_1, FromRatio(35, 384)))
        k_72 == VecAdd(k_71, VecScale(k_3, FromRatio(500, 1113)))
        k_73 == VecAdd(k_72, VecScale(k_4, FromRatio(125, 192)))
        k_74 == VecSub(k_73, VecScale(k_5, FromRatio(2187, 6784)))
        k_75 == VecAdd(k_74, VecScale(k_6, FromRatio(11, 84)))
        k_7 == VecScale(Func(p, t + hh, k_75), hh)
        rkdp4 == k_75
        rkdp5_1 == VecAdd(x, VecScale(k_1, FromRatio(5179, 57600)))
        rkdp5_2 == VecAdd(rkdp5_1, VecScale(k_3, FromRatio(7571, 16695)))
        rkdp5_3 == VecAdd(rkdp5_2, VecScale(k_4, FromRatio(393, 640)))
        rkdp5_4 == VecSub(rkdp5_3, VecScale(k_5, FromRatio(92097, 339200)))
        rkdp5_5 == VecAdd(rkdp5_4, VecScale(k_6, FromRatio(187, 2100)))
        rkdp5 == VecAdd(rkdp5_5, VecScale(k_7, FromRatio(1, 40)))
    IN  <<rkdp4, rkdp5>>

RECURSIVE SeqMaxAbs(_)
SeqMaxAbs(s) ==
    IF s = <<>> THEN 0 ELSE Max2(Abs(Head(s)), SeqMaxAbs(Tail(s)))

\* DormandPrince54::calc_error: the largest component of |y - y_hat|
DPCalcError(y, yh) == SeqMaxAbs(VecSub(y, yh).data)

DPAccept(c, e) == e <= c.abs_tol

\* DormandPrince54::calc_step_size: 0.9 * h_n * (abs_tol / error_n).pow(1/5)
DPCalcStepSize(c, h_n, error_n) ==
    LET f == FMul(FromRatio(9, 10), h_n)
        ratio == IF error_n # 0 THEN FDiv(c.abs_tol, error_n)
                 ELSE IF c.abs_tol = 0 THEN NaN ELSE Inf
    IN  IF ratio = NaN THEN NaN
        ELSE IF ratio = Inf
             THEN (IF f = 0 THEN NaN ELSE IF f > 0 THEN Inf ELSE -Inf)
        ELSE FMul(f, FRoot(ratio, 5))

DPResultAlwaysOk(t, t_stop) == "Ok"

\* the value DormandPrince54::solve returns once its loop has ended
DPResult(t, t_stop) == IF t < t_stop THEN "Err" ELSE "Ok"

\* ------------------------------------------------------------------------
\* Inputs explored
\* ------------------------------------------------------------------------
ASConfigs ==
    { [n_max |-> nm, h_0 |-> h0, fac |-> FromRatio(8, 10),
       fac_min |-> FromRatio(1, 4), fac_max |-> FromRatio(3, 1),
       abs_tol |-> FromRatio(1, 2), rel_tol |-> rt] :
      nm \in 0..MaxNMax, h0 \in {FromRatio(1, 2), FromRatio(2, 1)},
      rt \in {0, FromRatio(1, 2)} }

DPConfigs ==
    { [abs_tol |-> at, h_0 |-> h0, n_max |-> nm] :
      at \in {FromRatio(1, 20), FromRatio(1, 2)},
      h0 \in {0, FromRatio(1, 4), FromRatio(2, 1)}, nm \in 0..MaxNMax }

InitConds == {ColVec(<<One>>), ColVec(<<One, 0>>), RowVec(<<One, 0>>)}

TimeSpans == {<<0, -One>>, <<0, 0>>, <<0, One>>}

ASProblems ==
    { [t_start |-> ts[1], t_stop |-> ts[2], init |-> x0, a |-> 0, b |-> 0] :
      ts \in TimeSpans, x0 \in InitConds }

DPProblems ==
    { [t_start |-> ts[1], t_stop |-> ts[2], init |-> x0, a |-> ab[1], b |-> ab[2]] :
      ts \in TimeSpans, x0 \in InitConds,
      ab \in {<<-One, 0>>, <<0, 0>>, <<0, One>>, <<3 * One, One>>} }

Orders == {<<1, 2>>, <<3, 2>>}

\* What method.do_step may return to AdaptiveStepper::solve: the method is a
\* parameter of solve, so any pair of estimates of the shape of x.
Deltas == {0, FromRatio(1, 2), One}

DeltaVecs(x) ==
    IF Len(x.data) = 1 THEN {[x EXCEPT !.data = <<d>>] : d \in Deltas}
    ELSE {[x EXCEPT !.data = <<d[1], d[2]>>] : d \in Deltas \X Deltas}

MethodResults(x, hh) ==
    { <<VecAddS(x, hh), VecAdd(VecAddS(x, hh), d)>> : d \in DeltaVecs(x) }

\* ------------------------------------------------------------------------
\* The solve calls
\* ------------------------------------------------------------------------
OdeIdle ==
    /\ solver = "none" /\ cfg = <<>> /\ prob = <<>> /\ order = <<>>
    /\ pc = "idle" /\ t_n = 0 /\ x_n = <<>> /\ h = 0 /\ n = 0
    /\ t_vec = <<>> /\ res_vec = <<>> /\ err = 0 /\ y_new = <<>> /\ y_hat = <<>>
    /\ calls = 0 /\ ret = "none"

IeIdle ==
    /\ ie_prob = <<>> /\ ie_h = 0 /\ ie_pc = "idle" /\ ie_t = 0 /\ ie_x = <<>>
    /\ ie_tvec = <<>> /\ ie_xvec = <<>> /\ ie_helper = <<>> /\ ie_guess = <<>>
    /\ ie_z = <<>> /\ ie_iter = 0
    /\ ie_root = "none" /\ ie_ret = "none"

ChIdle ==
    /\ ch_backend = "none" /\ ch_a = <<>> /\ ch_pc = "idle" /\ ch_ret = <<>>

LaIdle ==
    /\ la_op = "idle" /\ la_backend = "none" /\ la_a = <<>> /\ la_b = <<>>
    /\ la_pc = "idle" /\ la_ret = <<>>

Init ==
    /\ IeIdle /\ ChIdle /\ LaIdle
    /\ solver \in {"adaptive", "dp54"}
    /\ cfg \in (IF solver = "adaptive" THEN ASConfigs ELSE DPConfigs)
    /\ prob \in (IF solver = "adaptive" THEN ASProblems ELSE DPProblems)
    /\ order \in (IF solver = "adaptive" THEN Orders ELSE {<<4, 5>>})
    /\ pc = "start"
    /\ t_n = 0 /\ x_n = prob.init /\ h = 0 /\ n = 0
    /\ t_vec = <<>> /\ res_vec = <<>>
    /\ err = 0 /\ y_new = prob.init /\ y_hat = prob.init
    /\ calls = 0 /\ ret = "none"

\* t_start > t_stop: panic!()
SolvePanic ==
    /\ UNCHANGED <<ieVars, chVars, laVars>>
    /\ pc = "start"
    /\ prob.t_start > prob.t_stop
    /\ pc' = "panic"
    /\ UNCHANGED <<solver, cfg, prob, order, t_n, x_n, h, n, t_vec, res_vec,
                   err, y_new, y_hat, calls, ret>>

\* the statements of solve before its loop
SolveBegin ==
    /\ UNCHANGED <<ieVars, chVars, laVars>>
    /\ pc = "start"
    /\ ~(prob.t_start > prob.t_stop)
    /\ x_n' = prob.init
    /\ t_n' = prob.t_start
    /\ h' = cfg.h_0
    /\ t_vec' = <<prob.t_start>>
    /\ res_vec' = <<prob.init>>
    /\ n' = 0
    /\ pc' = "loop"
    /\ UNCHANGED <<solver, cfg, prob, order, err, y_new, y_hat, calls, ret>>

\* A loop condition without the limit on the number of steps.
LoopCondNoLimit == t_n < prob.t_stop

LoopCond == n < cfg.n_max /\ t_n < prob.t_stop

\* one iteration of the loop of AdaptiveStepper::solve
ASIterate ==
    /\ UNCHANGED <<ieVars, chVars, laVars>>
    /\ solver = "adaptive" /\ pc = "loop" /\ LoopCond
    /\ calls < MaxCalls
    /\ LET hc == Clip(h, prob.t_stop - t_n)
       IN  \E r \in MethodResults(x_n, hc) :
             LET e == CalcError(cfg, r[1], r[2])
             IN  /\ y_new' = r[1] /\ y_hat' = r[2] /\ err' = e
                 /\ IF ASAccept(e)
                    THEN /\ t_n' = t_n + hc
                         /\ x_n' = r[1]
                         /\ t_vec' = Append(t_vec, t_n + hc)
                         /\ res_vec' = Append(res_vec, r[1])
                         /\ n' = n + 1
                    ELSE UNCHANGED <<t_n, x_n, t_vec, res_vec, n>>
                 /\ h' = NextStep(cfg, order, e, hc)
    /\ calls' = calls + 1
    /\ UNCHANGED <<solver, cfg, prob, order, pc, ret>>

\* AdaptiveStepper::solve returns
ASReturn ==
    /\ UNCHANGED <<ieVars, chVars, laVars>>
    /\ solver = "adaptive" /\ pc = "loop" /\ ~LoopCond
    /\ pc' = "done" /\ ret' = "Ok"
    /\ UNCHANGED <<solver, cfg, prob, order, t_n, x_n, h, n, t_vec, res_vec,
                   err, y_new, y_hat, calls>>

\* one iteration of the loop of DormandPrince54::solve
DPIterate ==
    /\ UNCHANGED <<ieVars, chVars, laVars>>
    /\ solver = "dp54" /\ pc = "loop" /\ LoopCond
    /\ calls < MaxCalls
    /\ LET h_n == Clip(h, prob.t_stop - t_n)
           r == DPDoStep(prob, t_n, x_n, h_n)
           error_n == DPCalcError(r[1], r[2])
       IN  /\ y_new' = r[1] /\ y_hat' = r[2] /\ err' = error_n
           /\ IF DPAccept(cfg, error_n)
              THEN /\ t_n' = t_n + h_n
                   /\ x_n' = r[1]
                   /\ t_vec' = Append(t_vec, t_n + h_n)
                   /\ res_vec' = Append(res_vec, r[1])
                   /\ n' = n + 1
              ELSE UNCHANGED <<t_n, x_n, t_vec, res_vec, n>>
           /\ h' = DPCalcStepSize(cfg, h_n, error_n)
    /\ calls' = calls + 1
    /\ UNCHANGED <<solver, cfg, prob, order, pc, ret>>

\* DormandPrince54::solve returns
DPReturn ==
    /\ UNCHANGED <<ieVars, chVars, laVars>>
    /\ solver = "dp54" /\ pc = "loop" /\ ~LoopCond
    /\ pc' = "done" /\ ret' = DPResult(t_n, prob.t_stop)
    /\ UNCHANGED <<solver, cfg, prob, order, t_n, x_n, h, n, t_vec, res_vec,
                   err, y_new, y_hat, calls>>

Next ==
    \/ SolvePanic
    \/ SolveBegin
    \/ ASIterate
    \/ ASReturn
    \/ DPIterate
    \/ DPReturn

Spec == Init /\ [][Next]_vars

\* ------------------------------------------------------------------------
\* Construction of an AdaptiveStepper
\* ------------------------------------------------------------------------
\* The value of the f64 literal <mant>e<exp>, mant * 10^exp, as the pair
\* <<mantissa, exponent>> whose mantissa does not end in 0: two literals
\* denote the same number exactly when their pairs are equal.
RECURSIVE Decimal(_, _)
Decimal(mant, exp) ==
    IF mant = 0 THEN <<0, 0>>
    ELSE IF mant % 10 = 0 THEN Decimal(mant \div 10, exp + 1)
    ELSE <<mant, exp>>

\* Calls of AdaptiveStepper::default() and of AdaptiveStepper::new with
\* literal arguments; cfg holds the call and then the stepper it created.
InitNew ==
    /\ IeIdle /\ ChIdle /\ LaIdle
    /\ solver = "adaptive"
    /\ \/ cfg = [call |-> "default", args |-> <<>>, stepper |-> <<>>]
       \/ \E nm \in 0..MaxNMax, h0 \in {<<2, -2>>, <<5, -1>>},
             at \in {<<1, -6>>, <<10, -6>>, <<1, -3>>, <<10, -3>>},
             rt \in {<<1, -6>>, <<10, -6>>, <<1, -3>>, <<10, -3>>} :
             cfg = [call |-> "new",
                    args |-> [n_max |-> nm, h_0 |-> h0, fac |-> <<8, -1>>,
                              fac_min |-> <<1, -3>>, fac_max |-> <<30, -1>>,
                              abs_tol |-> at, rel_tol |-> rt],
                    stepper |-> <<>>]
    /\ prob = <<>> /\ order = <<>>
    /\ pc = "new"
    /\ t_n = 0 /\ x_n = <<>> /\ h = 0 /\ n = 0
    /\ t_vec = <<>> /\ res_vec = <<>>
    /\ err = 0 /\ y_new = <<>> /\ y_hat = <<>>
    /\ calls = 0 /\ ret = "none"

\* AdaptiveStepper::new: every argument becomes the field of its name
ASNew ==
    /\ UNCHANGED <<ieVars, chVars, laVars>>
    /\ pc = "new" /\ cfg.call = "new"
    /\ cfg' = [cfg EXCEPT !.stepper =
                 [n_max |-> cfg.args.n_max,
                  h_0 |-> Decimal(cfg.args.h_0[1], cfg.args.h_0[2]),
                  fac |-> Decimal(cfg.args.fac[1], cfg.args.fac[2]),
                  fac_min |-> Decimal(cfg.args.fac_min[1], cfg.args.fac_min[2]),
                  fac_max |-> Decimal(cfg.args.fac_max[1], cfg.args.fac_max[2]),
                  abs_tol |-> Decimal(cfg.args.abs_tol[1], cfg.args.abs_tol[2]),
                  rel_tol |-> Decimal(cfg.args.rel_tol[1], cfg.args.rel_tol[2])]]
    /\ pc' = "constructed"
    /\ UNCHANGED <<solver, prob, order, t_n, x_n, h, n, t_vec, res_vec,
                   err, y_new, y_hat, calls, ret>>

\* AdaptiveStepper::default:
\* new(1000, 0.02, 0.8, 0.001, 3.0, 10e-6, 10e-3)
ASDefault ==
    /\ UNCHANGED <<ieVars, chVars, laVars>>
    /\ pc = "new" /\ cfg.call = "default"
    /\ cfg' = [cfg EXCEPT !.stepper =
                 [n_max |-> 1000,
                  h_0 |-> Decimal(2, -2),
                  fac |-> Decimal(8, -1),
                  fac_min |-> Decimal(1, -3),
                  fac_max |-> Decimal(30, -1),
                  abs_tol |-> Decimal(10, -6),
                  rel_tol |-> Decimal(10, -3)]]
    /\ pc' = "constructed"
    /\ UNCHANGED <<solver, prob, order, t_n, x_n, h, n, t_vec, res_vec,
                   err, y_new, y_hat, calls, ret>>

NextNew ==
    \/ ASNew
    \/ ASDefault

SpecNew == InitNew /\ [][NextNew]_vars

\* ------------------------------------------------------------------------
\* Implicit Euler
\* ------------------------------------------------------------------------
\* Largest number of steps of the fixed stepper explored.
MaxSteps == 2

\* NewtonRaphson::new(100, 1e-8): iteration limit and absolute tolerance
NewtonIters == 100

\* The tolerance 1e-8 lies above the resolution of f64 and below that of the
\* fixed-point scalars: it is taken as the smallest positive scalar.
NewtonTol == Max2(FromRatio(1, 100000000), 1)

\* Matrix::one(k): the k x k identity
MatOne(k) ==
    [m |-> k, n |-> k,
     data |-> [idx \in 1..(k * k) |->
                 IF (idx - 1) % k = (idx - 1) \div k THEN One ELSE 0]]

\* Matrix * scalar
MatScale(a, k) == [a EXCEPT !.data = [i \in DOMAIN a.data |-> FMul(a.data[i], k)]]

\* Matrix - Matrix, element by element
MatSub(a, b) == [a EXCEPT !.data = [i \in DOMAIN a.data |-> a.data[i] - b.data[i]]]

\* ImplicitODE::func(t, x) of the problems explored:
\* a * x + c * x^2 + b * t in every component.
IEFunc(p, t, x) ==
    [x EXCEPT !.data = [i \in DOMAIN x.data |->
        FMul(p.a, x.data[i]) + FMul(p.c, FMul(x.data[i], x.data[i])) + FMul(p.b, t)]]

\* ImplicitODE::jacobian(t, x) of these problems: diagonal, a + 2 * c * x_i
IEJacobianF(p, t, x) ==
    LET k == Len(x.data)
    IN  [m |-> k, n |-> k,
         data |-> [idx \in 1..(k * k) |->
                     IF (idx - 1) % k = (idx - 1) \div k
                     THEN p.a + FMul(2 * p.c, x.data[((idx - 1) % k) + 1])
                     ELSE 0]]

\* ImplicitEulerHelper::eval with the wrong sign of z.
HelperEvalPlus(p, hp, z) ==
    VecAdd(VecAdd(hp.x, VecScale(IEFunc(p, hp.t, z), hp.h)), z)

\* ImplicitEulerHelper::eval: x + func(t, z) * h - z
HelperEval(p, hp, z) ==
    VecSub(VecAdd(hp.x, VecScale(IEFunc(p, hp.t, z), hp.h)), z)

\* ImplicitEulerHelper::jacobian: function.jacobian(t, z) * h - Matrix::one(m)
\* with (m, _n) = z.dim()
HelperJacobian(p, hp, z) ==
    MatSub(MatScale(IEJacobianF(p, hp.t, z), hp.h), MatOne(z.m))

\* The helper built with the time of the start of the step.
MakeHelperAtStart(t, x, hh) == [t |-> t, x |-> x, h |-> hh]

\* let t = *t_n + *h; ImplicitEulerHelper::new(prob, &t, x_n, h)
MakeHelper(t, x, hh) == [t |-> t + hh, x |-> x, h |-> hh]

\* Solution of j * d = g for the 1 x 1 and 2 x 2 matrices explored (Cramer's
\* rule), not ok when the determinant is 0.
LinSolve(j, g) ==
    IF j.m = 1
    THEN IF j.data[1] = 0 THEN [ok |-> FALSE, d |-> g]
         ELSE [ok |-> TRUE, d |-> [g EXCEPT !.data = <<FDiv(g.data[1], j.data[1])>>]]
    ELSE LET det == FMul(j.data[1], j.data[4]) - FMul(j.data[3], j.data[2])
             d1 == FMul(g.data[1], j.data[4]) - FMul(j.data[3], g.data[2])
             d2 == FMul(j.data[1], g.data[2]) - FMul(g.data[1], j.data[2])
         IN  IF det = 0 THEN [ok |-> FALSE, d |-> g]
             ELSE [ok |-> TRUE,
                   d |-> [g EXCEPT !.data = <<FDiv(d1, det), FDiv(d2, det)>>]]

\* One pass of the loop of NewtonRaphson::find_root at the iterate z, the
\* iter-th: "Ok" when the residual is within the tolerance, "Err" when the
\* iteration limit is reached or the Newton step cannot be solved, else
\* "next" with the next iterate.
NewtonPass(p, hp, z, iter) ==
    LET g == HelperEval(p, hp, z)
        s == LinSolve(HelperJacobian(p, hp, z), g)
    IN  IF SeqMaxAbs(g.data) <= NewtonTol THEN [out |-> "Ok", z |-> z]
        ELSE IF iter >= NewtonIters \/ ~s.ok THEN [out |-> "Err", z |-> z]
        ELSE [out |-> "next", z |-> VecSub(z, s.d)]

IEProblems ==
    { [t_start |-> 0, t_stop |-> ts, init |-> x0, a |-> f[1], b |-> f[2], c |-> f[3]] :
      ts \in {-One, FromRatio(1, 2), One},
      x0 \in {ColVec(<<One>>), ColVec(<<One, 0>>), ColVec(<<2 * One, -One>>)},
      f \in {<<-4 * One, 0, 0>>, <<-One, One, 0>>, <<2 * One, 0, 0>>,
             <<0, 0, One>>, <<0, One, -One>>, <<4 * One, One, 0>>} }

IESteps == {FromRatio(1, 4), FromRatio(1, 2)}

InitIE ==
    /\ OdeIdle /\ ChIdle /\ LaIdle
    /\ ie_prob \in IEProblems
    /\ ie_h \in IESteps
    /\ ie_pc = "start"
    /\ ie_t = 0 /\ ie_x = ie_prob.init
    /\ ie_tvec = <<>> /\ ie_xvec = <<>>
    /\ ie_helper = <<>> /\ ie_guess = <<>>
    /\ ie_z = <<>> /\ ie_iter = 0
    /\ ie_root = "none" /\ ie_ret = "none"

\* the stepper's solve: t_start > t_stop
IESolvePanic ==
    /\ UNCHANGED <<odeVars, chVars, laVars>>
    /\ ie_pc = "start"
    /\ ie_prob.t_start > ie_prob.t_stop
    /\ ie_pc' = "panic"
    /\ UNCHANGED <<ie_prob, ie_h, ie_t, ie_x, ie_tvec, ie_xvec, ie_helper,
                   ie_guess, ie_z, ie_iter, ie_root, ie_ret>>

\* the stepper's solve before its loop
IESolveBegin ==
    /\ UNCHANGED <<odeVars, chVars, laVars>>
    /\ ie_pc = "start"
    /\ ~(ie_prob.t_start > ie_prob.t_stop)
    /\ ie_t' = ie_prob.t_start
    /\ ie_x' = ie_prob.init
    /\ ie_tvec' = <<ie_prob.t_start>>
    /\ ie_xvec' = <<ie_prob.init>>
    /\ ie_pc' = "loop"
    /\ UNCHANGED <<ie_prob, ie_h, ie_helper, ie_guess, ie_z, ie_iter, ie_root,
                   ie_ret>>

\* the stepper calls ImplicitEuler::do_step, which builds the helper and calls
\* find_root with x_n as the start value
IEDoStep ==
    /\ UNCHANGED <<odeVars, chVars, laVars>>
    /\ ie_pc = "loop"
    /\ ie_t < ie_prob.t_stop
    /\ Len(ie_tvec) <= MaxSteps
    /\ LET hh == FMin(ie_h, ie_prob.t_stop - ie_t)
       IN  ie_helper' = MakeHelper(ie_t, ie_x, hh)
    /\ ie_guess' = ie_x
    /\ ie_z' = ie_x
    /\ ie_iter' = 0
    /\ ie_root' = "none"
    /\ ie_pc' = "newton"
    /\ UNCHANGED <<ie_prob, ie_h, ie_t, ie_x, ie_tvec, ie_xvec, ie_ret>>

\* one pass of the loop of find_root; do_step unwraps its result, which
\* panics on Err, and the stepper records the new state on Ok
IENewton ==
    /\ UNCHANGED <<odeVars, chVars, laVars>>
    /\ ie_pc = "newton"
    /\ LET r == NewtonPass(ie_prob, ie_helper, ie_z, ie_iter)
       IN  IF r.out = "Ok"
           THEN /\ ie_root' = "Ok"
                /\ ie_x' = r.z
                /\ ie_t' = ie_t + ie_helper.h
                /\ ie_tvec' = Append(ie_tvec, ie_t + ie_helper.h)
                /\ ie_xvec' = Append(ie_xvec, r.z)
                /\ ie_pc' = "loop"
                /\ UNCHANGED <<ie_z, ie_iter>>
           ELSE IF r.out = "Err"
           THEN /\ ie_root' = "Err"
                /\ ie_pc' = "panic"
                /\ UNCHANGED <<ie_x, ie_t, ie_tvec, ie_xvec, ie_z, ie_iter>>
           ELSE /\ ie_z' = r.z
                /\ ie_iter' = ie_iter + 1
                /\ UNCHANGED <<ie_x, ie_t, ie_tvec, ie_xvec, ie_root, ie_pc>>
    /\ UNCHANGED <<ie_prob, ie_h, ie_helper, ie_guess, ie_ret>>

\* the stepper's solve returns
IEReturn ==
    /\ UNCHANGED <<odeVars, chVars, laVars>>
    /\ ie_pc = "loop"
    /\ ~(ie_t < ie_prob.t_stop)
    /\ ie_pc' = "done" /\ ie_ret' = "Ok"
    /\ UNCHANGED <<ie_prob, ie_h, ie_t, ie_x, ie_tvec, ie_xvec, ie_helper,
                   ie_guess, ie_z, ie_iter, ie_root>>

NextIE ==
    \/ IESolvePanic
    \/ IESolveBegin
    \/ IEDoStep
    \/ IENewton
    \/ IEReturn

SpecIE == InitIE /\ [][NextIE]_vars

\* ------------------------------------------------------------------------
\* Cholesky decomposition
\* ------------------------------------------------------------------------
\* Largest dimension of a matrix decomposed.
MaxDim == 3

\* f64 arithmetic on the scalars extended by Inf, -Inf and NaN
IsInf(a) == a = Inf \/ a = -Inf

Sgn(a) == IF a < 0 THEN -1 ELSE 1

XSub(a, b) ==
    IF a = NaN \/ b = NaN THEN NaN
    ELSE IF IsInf(a) THEN (IF b = a THEN NaN ELSE a)
    ELSE IF IsInf(b) THEN -b
    ELSE a - b

XAdd(a, b) ==
    IF a = NaN \/ b = NaN THEN NaN
    ELSE IF IsInf(a) THEN (IF b = -a THEN NaN ELSE a)
    ELSE IF IsInf(b) THEN b
    ELSE a + b

XMul(a, b) ==
    IF a = NaN \/ b = NaN THEN NaN
    ELSE IF IsInf(a) \/ IsInf(b)
         THEN (IF a = 0 \/ b = 0 THEN NaN ELSE Sgn(a) * Sgn(b) * Inf)
    ELSE FMul(a, b)

XDiv(a, b) ==
    IF a = NaN \/ b = NaN THEN NaN
    ELSE IF IsInf(a) THEN (IF IsInf(b) THEN NaN ELSE Sgn(a) * Sgn(b) * Inf)
    ELSE IF IsInf(b) THEN 0
    ELSE IF b = 0 THEN (IF a = 0 THEN NaN ELSE Sgn(a) * Inf)
    ELSE FDiv(a, b)

\* x.pow(0.5): NaN for a negative number, Inf for Inf and for -Inf
XPowHalf(a) ==
    IF a = NaN THEN NaN
    ELSE IF IsInf(a) THEN Inf
    ELSE IF a < 0 THEN NaN
    ELSE FRoot(a, 2)

\* a diagonal term that is not positive
NonPositive(a) == a # NaN /\ a <= 0

\* Matrix::zero(m, n)
MatZero(rows, cols) == [m |-> rows, n |-> cols, data |-> [idx \in 1..(rows * cols) |-> 0]]

\* *a.get_mut(i, j) = v
MatSet(a, i, j, v) == [a EXCEPT !.data[j * a.m + i + 1] = v]

\* The decomposition without the sum of the products of earlier columns.
CholSumZero(l, i, j, k) == 0

\* the sum over k in 0..j of l[i, k] * l[j, k]
RECURSIVE CholSum(_, _, _, _)
CholSum(l, i, j, k) ==
    IF k = 0 THEN 0
    ELSE XAdd(CholSum(l, i, j, k - 1),
              XMul(MatGet(l, i, k - 1), MatGet(l, j, k - 1)))

\* The loops of the native dec_cholesky_r from the cell (i, j) on; nonpos
\* records whether a diagonal term A[i,i] - sum was not positive.
RECURSIVE CholNativeFrom(_, _, _, _, _)
CholNativeFrom(a, l, i, j, nonpos) ==
    IF i >= a.n THEN [some |-> TRUE, l |-> l, nonpos |-> nonpos]
    ELSE LET sum == CholSum(l, i, j, j)
             term == IF i = j THEN XSub(MatGet(a, i, i), sum)
                     ELSE XSub(MatGet(a, i, j), sum)
             v == IF i = j THEN XPowHalf(term) ELSE XDiv(term, MatGet(l, j, j))
             l2 == MatSet(l, i, j, v)
             np == nonpos \/ (i = j /\ NonPositive(term))
         IN  IF j < i THEN CholNativeFrom(a, l2, i, j + 1, np)
             ELSE CholNativeFrom(a, l2, i + 1, 0, np)

\* dec_cholesky_r under the feature "native": always Some
CholNative(a) == CholNativeFrom(a, MatZero(a.m, a.n), 0, 0, FALSE)

\* Column j of the LAPACK routine potrf below the diagonal, from row i on:
\* a[i, j] = (a[i, j] - sum over k < j of a[i, k] * a[j, k]) / ajj
RECURSIVE PotrfColumn(_, _, _, _)
PotrfColumn(a, j, i, ajj) ==
    IF i >= a.n THEN a
    ELSE PotrfColumn(MatSet(a, i, j, FDiv(MatGet(a, i, j) - CholSum(a, i, j, j), ajj)),
                     j, i + 1, ajj)

\* T::xpotrf('L', n, data, n, info): the LAPACK routine potrf on the lower
\* triangle, from column j on.  info = j + 1 when the leading minor of order
\* j + 1 is not positive definite, info = 0 when the factorization completes.
RECURSIVE PotrfFrom(_, _)
PotrfFrom(a, j) ==
    IF j >= a.n THEN [data |-> a, info |-> 0]
    ELSE LET ajj == MatGet(a, j, j) - CholSum(a, j, j, j)
         IN  IF ajj <= 0 THEN [data |-> MatSet(a, j, j, ajj), info |-> j + 1]
             ELSE PotrfFrom(PotrfColumn(MatSet(a, j, j, FRoot(ajj, 2)), j, j + 1,
                                        FRoot(ajj, 2)), j + 1)

\* fill above diagonal with zeros
ZeroAbove(a) ==
    [a EXCEPT !.data = [idx \in DOMAIN a.data |->
        IF (idx - 1) % a.m < (idx - 1) \div a.m THEN 0 ELSE a.data[idx]]]

\* the test of the status code of xpotrf
PotrfFailed(info) == info < 0

\* dec_cholesky_r under the feature "blaslapack"
CholLapack(a) ==
    LET r == PotrfFrom(a, 0)
    IN  IF PotrfFailed(r.info)
        THEN [some |-> FALSE, l |-> a, nonpos |-> r.info > 0]
        ELSE [some |-> TRUE, l |-> ZeroAbove(r.data), nonpos |-> r.info > 0]

CholEntries == {-One, 0, One, 4 * One}

SymEntries == {-One, 0, One}

DiagEntries == {One, 2 * One, 4 * One}

\* the matrices decomposed: all 1 x 1 and 2 x 2 matrices over CholEntries,
\* symmetric matrices of the dimensions 3..MaxDim, and non-square matrices
CholInputs ==
    { [m |-> 1, n |-> 1, data |-> <<e>>] : e \in CholEntries }
    \cup { [m |-> 2, n |-> 2, data |-> <<e[1], e[2], e[3], e[4]>>] :
           e \in CholEntries \X CholEntries \X CholEntries \X CholEntries }
    \cup { [m |-> k, n |-> k,
            data |-> [idx \in 1..(k * k) |->
                        LET i == (idx - 1) % k
                            j == (idx - 1) \div k
                        IN  IF i = j THEN d[i + 1]
                            ELSE IF (i + j) % 2 = 1 THEN o[1] ELSE o[2]]] :
           k \in 3..MaxDim, d \in [1..MaxDim -> DiagEntries],
           o \in SymEntries \X SymEntries }
    \cup { [m |-> sh[1], n |-> sh[2], data |-> <<e[1], e[2]>>] :
           sh \in {<<1, 2>>, <<2, 1>>}, e \in {0, One} \X {0, One} }

InitChol ==
    /\ OdeIdle /\ IeIdle /\ LaIdle
    /\ ch_backend \in {"native", "blaslapack"}
    /\ ch_a \in CholInputs
    /\ ch_pc = "start"
    /\ ch_ret = <<>>

\* dec_cholesky: assert_eq!(m, n) fails
CholPanic ==
    /\ UNCHANGED <<odeVars, ieVars, laVars>>
    /\ ch_pc = "start"
    /\ ch_a.m # ch_a.n
    /\ ch_pc' = "panic"
    /\ UNCHANGED <<ch_backend, ch_a, ch_ret>>

\* dec_cholesky on a square matrix
DecCholesky ==
    /\ UNCHANGED <<odeVars, ieVars, laVars>>
    /\ ch_pc = "start"
    /\ ch_a.m = ch_a.n
    /\ ch_ret' = IF ch_backend = "native" THEN CholNative(ch_a) ELSE CholLapack(ch_a)
    /\ ch_pc' = "done"
    /\ UNCHANGED <<ch_backend, ch_a>>

NextChol ==
    \/ CholPanic
    \/ DecCholesky

SpecChol == InitChol /\ [][NextChol]_vars

\* ------------------------------------------------------------------------
\* Matrix product, Hessenberg and QR decomposition
\* ------------------------------------------------------------------------
\* Index for Matrix: self[[i, j]] is data[j * m + i], without a test of i, j
MatIndex(a, i, j) == a.data[j * a.m + i + 1]

\* Quotient rounded to the nearest whole number (b # 0).
RDiv(a, b) ==
    LET q == (2 * Abs(a) + Abs(b)) \div (2 * Abs(b))
    IN  IF (a >= 0) = (b > 0) THEN q ELSE -q

\* the sum over t in 0..k of a[[i, t]] * b[[t, j]], in units of 1 / One^2
RECURSIVE MulSum(_, _, _, _, _)
MulSum(a, b, i, j, k) ==
    IF k = 0 THEN 0
    ELSE MulSum(a, b, i, j, k - 1) + MatIndex(a, i, k - 1) * MatIndex(b, k - 1, j)

\* A product that stores entry (i, j) at data[i * cols + j].
MatMulRowMajor(a, b) ==
    [m |-> a.m, n |-> b.n,
     data |-> [idx \in 1..(a.m * b.n) |->
                 RDiv(MulSum(a, b, (idx - 1) \div b.n, (idx - 1) % b.n, a.n), One)]]

\* &Matrix * &Matrix after its assert_eq!(l_cols, r_rows)
MatMul(a, b) ==
    [m |-> a.m, n |-> b.n,
     data |-> [idx \in 1..(a.m * b.n) |->
                 RDiv(MulSum(a, b, (idx - 1) % a.m, (idx - 1) \div a.m, a.n), One)]]

\* An in-place product that keeps the column count of self.
MatMulInPlaceKeepDim(a, b) == [a EXCEPT !.data = MatMul(a, b).data]

\* &mut Matrix * &Matrix after its assert_eq!(l_cols, r_rows):
\* self.data = prod.data; self.m = l_rows; self.n = r_cols
MatMulInPlace(a, b) == [m |-> a.m, n |-> b.n, data |-> MatMul(a, b).data]

\* Matrix::transpose
MatTranspose(a) ==
    [m |-> a.n, n |-> a.m,
     data |-> [idx \in 1..(a.m * a.n) |->
                 MatIndex(a, (idx - 1) \div a.n, (idx - 1) % a.n)]]

\* Matrix::get_column(j)
GetColumn(a, j) == ColVec([i \in 1..a.m |-> MatIndex(a, i - 1, j)])

\* the sum of the squares of the entries k.. of the sequence u, in units of
\* 1 / One^2
RECURSIVE SqSumFrom(_, _)
SqSumFrom(u, k) ==
    IF k > Len(u) THEN 0 ELSE u[k] * u[k] + SqSumFrom(u, k + 1)

\* Matrix::householder(v, k): the reflector I - 2 u u^T / (u^T u) acting on
\* the rows k.., with u = d - alpha e_1 for d = v[k..] and
\* alpha = -sign(d_0) |d|; the identity when d is zero.
Householder(v, k) ==
    LET mm == Len(v.data)
        norm == FRoot(RDiv(SqSumFrom(v.data, k + 1), One), 2)
        alpha == IF v.data[k + 1] >= 0 THEN -norm ELSE norm
        u == [i \in 1..mm |-> IF i <= k THEN 0
                              ELSE IF i = k + 1 THEN v.data[i] - alpha
                              ELSE v.data[i]]
        uu == SqSumFrom(u, 1)
    IN  IF alpha = 0 \/ uu = 0 THEN MatOne(mm)
        ELSE [m |-> mm, n |-> mm,
              data |-> [idx \in 1..(mm * mm) |->
                  LET i == ((idx - 1) % mm) + 1
                      j == ((idx - 1) \div mm) + 1
                  IN  (IF i = j THEN One ELSE 0) - RDiv(2 * u[i] * u[j] * One, uu)]]

\* The reflection without the product from the right.
HessStepLeftOnly(hq, k) ==
    LET househ == Householder(GetColumn(hq.h, k - 1), k)
    IN  [h |-> MatMul(househ, hq.h), q |-> MatMul(househ, hq.q)]

\* A pass that builds its reflector from column k instead of column k - 1.
HessStepNextColumn(hq, k) ==
    LET househ == Householder(GetColumn(hq.h, k), k)
        h1 == MatMul(househ, hq.h)
    IN  [h |-> MatMul(h1, MatTranspose(househ)), q |-> MatMul(househ, hq.q)]

\* one pass of the loop of the native dec_hessenberg_r, for k
HessStep(hq, k) ==
    LET househ == Householder(GetColumn(hq.h, k - 1), k)
        h1 == MatMul(househ, hq.h)
    IN  [h |-> MatMul(h1, MatTranspose(househ)), q |-> MatMul(househ, hq.q)]

\* the passes k..m-1 of the loop
RECURSIVE HessLoop(_, _)
HessLoop(hq, k) == IF k >= hq.h.m THEN hq ELSE HessLoop(HessStep(hq, k), k + 1)

\* xgehrd: the reduced matrix on and above the first subdiagonal, the vectors
\* of the reflectors (not zero in general) below it
Gehrd(a) ==
    LET r == HessLoop([h |-> a, q |-> MatOne(a.m)], 1).h
    IN  [r EXCEPT !.data = [idx \in DOMAIN r.data |->
            IF (idx - 1) % r.m >= ((idx - 1) \div r.m) + 2 THEN One ELSE r.data[idx]]]

\* Matrix::h: zero for i in 2..m, k in 0..(i - 1)
HessH(a) ==
    [a EXCEPT !.data = [idx \in DOMAIN a.data |->
        IF (idx - 1) % a.m >= 2 /\ (idx - 1) \div a.m < ((idx - 1) % a.m) - 1
        THEN 0 ELSE a.data[idx]]]

\* xorghr: the product of the reflectors of xgehrd
Orghr(a) == MatTranspose(HessLoop([h |-> a, q |-> MatOne(a.m)], 1).q)

\* Matrix::r: zero for i in 1..m, k in 0..min(i, n)
QrR(a) ==
    [a EXCEPT !.data = [idx \in DOMAIN a.data |->
        IF (idx - 1) % a.m >= 1 /\ (idx - 1) \div a.m < (idx - 1) % a.m
        THEN 0 ELSE a.data[idx]]]

\* the rows x cols matrix with the entry e[1 + (i * p + j * q) % 3] at (i, j)
GenMatrix(rows, cols, e, p, q) ==
    [m |-> rows, n |-> cols,
     data |-> [idx \in 1..(rows * cols) |->
                 e[1 + ((((idx - 1) % rows) * p + ((idx - 1) \div rows) * q) % 3)]]]

\* all matrices of 0..MaxDim rows and columns generated this way from the
\* entries -1, 0, 1 and 2
DecInputs ==
    { GenMatrix(rows, cols, e, pq[1], pq[2]) :
        rows \in 0..MaxDim, cols \in 0..MaxDim,
        e \in {-One, 0, One, 2 * One} \X {-One, 0, One, 2 * One} \X {-One, 0, One, 2 * One},
        pq \in {<<1, 1>>, <<1, 2>>, <<2, 1>>} }

InitDec ==
    \/ InitChol
    \/ /\ OdeIdle /\ IeIdle /\ ChIdle
       /\ la_op \in {"dec_hessenberg", "dec_qr"}
       /\ la_backend \in {"native", "blaslapack"}
       /\ (la_op = "dec_qr") => (la_backend = "blaslapack")
       /\ la_a \in DecInputs
       /\ (la_op = "dec_qr") => (la_a.m >= 1 /\ la_a.n >= 1)
       /\ la_b = <<>>
       /\ la_pc = "start"
       /\ la_ret = <<>>

\* The assertions of dec_hessenberg without that on the empty matrix.
HessPrecondSquare(a) == a.m = a.n

\* dec_hessenberg: assert!(m == n) and assert!(m != 0)
HessPrecond(a) == a.m = a.n /\ a.m # 0

\* The assertion the doc comment of dec_qr names.
QrPrecondSquare(a) == a.m = a.n

\* dec_qr: assert!(m >= n)
QrPrecond(a) == a.m >= a.n

\* dec_hessenberg: one of the two assertions fails
HessPanic ==
    /\ UNCHANGED <<odeVars, ieVars, chVars>>
    /\ la_op = "dec_hessenberg" /\ la_pc = "start"
    /\ ~HessPrecond(la_a)
    /\ la_pc' = "panic"
    /\ UNCHANGED <<la_op, la_backend, la_a, la_b, la_ret>>

\* dec_hessenberg, native dec_hessenberg_r up to the loop
HessBegin ==
    /\ UNCHANGED <<odeVars, ieVars, chVars>>
    /\ la_op = "dec_hessenberg" /\ la_pc = "start" /\ la_backend = "native"
    /\ HessPrecond(la_a)
    /\ la_ret' = [k |-> 1, q |-> MatOne(la_a.m), h |-> la_a]
    /\ la_pc' = "loop"
    /\ UNCHANGED <<la_op, la_backend, la_a, la_b>>

\* one pass of for k in 1..m
HessIterate ==
    /\ UNCHANGED <<odeVars, ieVars, chVars>>
    /\ la_op = "dec_hessenberg" /\ la_pc = "loop"
    /\ la_ret.k < la_a.m
    /\ LET r == HessStep(la_ret, la_ret.k)
       IN  la_ret' = [k |-> la_ret.k + 1, q |-> r.q, h |-> r.h]
    /\ UNCHANGED <<la_op, la_backend, la_a, la_b, la_pc>>

\* return (q.transpose(), h)
HessReturn ==
    /\ UNCHANGED <<odeVars, ieVars, chVars>>
    /\ la_op = "dec_hessenberg" /\ la_pc = "loop"
    /\ ~(la_ret.k < la_a.m)
    /\ la_ret' = [k |-> la_ret.k, q |-> MatTranspose(la_ret.q), h |-> la_ret.h]
    /\ la_pc' = "done"
    /\ UNCHANGED <<la_op, la_backend, la_a, la_b>>

\* dec_hessenberg, blaslapack dec_hessenberg_r
HessLapack ==
    /\ UNCHANGED <<odeVars, ieVars, chVars>>
    /\ la_op = "dec_hessenberg" /\ la_pc = "start" /\ la_backend = "blaslapack"
    /\ HessPrecond(la_a)
    /\ la_ret' = [k |-> la_a.m, q |-> Orghr(la_a), h |-> HessH(Gehrd(la_a))]
    /\ la_pc' = "done"
    /\ UNCHANGED <<la_op, la_backend, la_a, la_b>>

\* dec_qr: assert!(m >= n) fails
QrPanic ==
    /\ UNCHANGED <<odeVars, ieVars, chVars>>
    /\ la_op = "dec_qr" /\ la_pc = "start"
    /\ ~QrPrecond(la_a)
    /\ la_pc' = "panic"
    /\ UNCHANGED <<la_op, la_backend, la_a, la_b, la_ret>>

\* the numbers an external routine may leave in place of the entries of a
LapackOutputs(a) ==
    { [a EXCEPT !.data = [idx \in DOMAIN a.data |-> a.data[idx] + d]] : d \in {One, 3 * One} }

\* dec_qr and dec_qr_r: xgeqrf and xorgqr leave m * n numbers each, of which
\* Matrix::r keeps those on and above the diagonal
DecQr ==
    /\ UNCHANGED <<odeVars, ieVars, chVars>>
    /\ la_op = "dec_qr" /\ la_pc = "start"
    /\ QrPrecond(la_a)
    /\ \E f \in LapackOutputs(la_a) :
         la_ret' = [q |-> [m |-> la_a.m, n |-> la_a.n, data |-> f.data],
                    r |-> QrR([m |-> la_a.m, n |-> la_a.n, data |-> f.data])]
    /\ la_pc' = "done"
    /\ UNCHANGED <<la_op, la_backend, la_a, la_b>>

NextDec ==
    \/ CholPanic
    \/ DecCholesky
    \/ HessPanic
    \/ HessBegin
    \/ HessIterate
    \/ HessReturn
    \/ HessLapack
    \/ QrPanic
    \/ DecQr

SpecDec == InitDec /\ [][NextDec]_vars

\* ------------------------------------------------------------------------
\* Solution of linear systems: LUDec::solve, LUDec::inv, Matrix::solve
\* ------------------------------------------------------------------------
\* the sum over kk in k..hi of t[i, kk] * x[kk]
RECURSIVE TriSum(_, _, _, _, _)
TriSum(t, x, i, k, hi) ==
    IF k > hi THEN 0
    ELSE XAdd(XMul(MatIndex(t, i, k), x[k + 1]), TriSum(t, x, i, k + 1, hi))

\* Substitution in the column x from the row i on, downwards (step 1,
\* forward) or upwards (step -1, backward):
\* x_i = (x_i - sum of t[i, k] x_k over the rows already done) / t[i, i]
RECURSIVE SubstituteFrom(_, _, _, _)
SubstituteFrom(t, x, i, step) ==
    IF i < 0 \/ i >= t.m THEN x
    ELSE LET sum == IF step = 1 THEN TriSum(t, x, i, 0, i - 1)
                    ELSE TriSum(t, x, i, i + 1, t.m - 1)
         IN  SubstituteFrom(t, [x EXCEPT ![i + 1] = XDiv(XSub(x[i + 1], sum),
                                                         MatIndex(t, i, i))],
                            i + step, step)

\* substitute_forward (start 0, step 1) and substitute_backward (start m - 1,
\* step -1) for every column of the right-hand side b
Substitute(t, b, start, step) ==
    [b EXCEPT !.data = [idx \in DOMAIN b.data |->
        SubstituteFrom(t, GetColumn(b, (idx - 1) \div b.m).data, start, step)
            [((idx - 1) % b.m) + 1]]]

\* The solution without the permutation of the right-hand side.
LuSolveNoPerm(f, rhs) ==
    Substitute(f.u, Substitute(f.l, rhs, 0, 1), f.u.m - 1, -1)

\* LUDec::solve: b_hat = p * rhs, y = l.substitute_forward(b_hat),
\* x = u.substitute_backward(y)
LuSolve(f, rhs) ==
    LET b_hat == MatMul(f.p, rhs)
        y == Substitute(f.l, b_hat, 0, 1)
    IN  Substitute(f.u, y, f.u.m - 1, -1)

\* the permutation matrix of dimension k: the identity, or the rows 0 and
\* k - 1 exchanged
PermMatrix(k, swap) ==
    [m |-> k, n |-> k,
     data |-> [idx \in 1..(k * k) |->
        LET i == (idx - 1) % k
            j == (idx - 1) \div k
            pi == IF ~swap THEN i ELSE IF i = 0 THEN k - 1 ELSE IF i = k - 1 THEN 0 ELSE i
        IN  IF pi = j THEN One ELSE 0]]

\* unit lower triangle (upper FALSE) or upper triangle (upper TRUE) of g
Triangle(g, upper) ==
    [g EXCEPT !.data = [idx \in DOMAIN g.data |->
        LET i == (idx - 1) % g.m
            j == (idx - 1) \div g.m
        IN  IF upper THEN (IF i <= j THEN g.data[idx] ELSE 0)
            ELSE (IF i > j THEN g.data[idx] ELSE IF i = j THEN One ELSE 0)]]

\* dec_lu: the factors l (unit lower triangular), u (upper triangular) and p
\* (permutation) with p * a = l * u, for every dimension 1..MaxDim; u has a
\* zero on its diagonal exactly when a is singular
LuFactors ==
    { [l |-> Triangle(GenMatrix(k, k, el, 1, 2), FALSE),
       u |-> Triangle(GenMatrix(k, k, eu, 1, 1), TRUE),
       p |-> PermMatrix(k, sw)] :
      k \in 1..MaxDim,
      el \in {<<0, 0, 0>>, <<One, -One, 2 * One>>, <<-2 * One, One, 0>>},
      eu \in {<<One, 2 * One, -One>>, <<2 * One, One, One>>, <<-One, 0, 2 * One>>,
              <<0, One, 2 * One>>},
      sw \in BOOLEAN }

\* the matrix a with p * a = l * u
FactoredMatrix(f) == MatMul(MatTranspose(f.p), MatMul(f.l, f.u))

\* the right-hand sides for the dimension k: a column vector, or a matrix
\* of 1..k columns
RightHandSides(k) ==
    { [kind |-> kd, v |-> GenMatrix(k, r, e, 1, 1)] :
      kd \in {"vector", "matrix"}, r \in 1..k,
      e \in {<<One, 0, 2 * One>>, <<-One, One, One>>} }

\* xgetrf: info = i > 0 when u[i, i] (1-based) is the first exact zero on
\* the diagonal of u, 0 when there is none; its arguments are legal here
GetrfInfo(f) ==
    IF \E i \in 0..(f.u.m - 1) : MatIndex(f.u, i, i) = 0
    THEN 1 + CHOOSE i \in 0..(f.u.m - 1) :
                 /\ MatIndex(f.u, i, i) = 0
                 /\ \A j \in 0..(i - 1) : MatIndex(f.u, j, j) # 0
    ELSE 0

\* xgetrs(n, nrhs, a, lda, ipiv, b, ldb, info): info < 0 for a leading
\* dimension below max(1, n), else 0; a zero of the diagonal is not tested
GetrsInfo(order_n, nrhs, lda, ldb) ==
    IF lda < Max2(1, order_n) THEN -5
    ELSE IF ldb < Max2(1, order_n) THEN -8
    ELSE 0

\* Matrix::solve for the right-hand side b.  Feature "native":
\* solve_vector_r and solve_matrix_r return what the substitutions leave.
\* Feature "blaslapack": solve_vector_r calls xgetrs(m, 1, a, n, ipiv, y, y_m),
\* solve_matrix_r calls xgetrs(n, y_n, a, m, ipiv, y, y_n); None for
\* info < 0 after xgetrf and for info # 0 after xgetrs.
MatrixSolve(backend, f, b) ==
    IF backend = "native" THEN [ok |-> TRUE, x |-> LuSolve(f, b.v)]
    ELSE LET m == f.p.m
             info == IF GetrfInfo(f) < 0 THEN GetrfInfo(f)
                     ELSE IF b.kind = "vector" THEN GetrsInfo(m, 1, m, b.v.m)
                     ELSE GetrsInfo(m, b.v.n, m, b.v.n)
         IN  IF info # 0 THEN [ok |-> FALSE, x |-> <<>>]
             ELSE [ok |-> TRUE, x |-> LuSolve(f, b.v)]

InitSolve ==
    /\ OdeIdle /\ IeIdle /\ ChIdle
    /\ la_op \in {"lu_solve", "lu_inv", "solve"}
    /\ la_backend \in {"native", "blaslapack"}
    /\ (la_op # "solve") => (la_backend = "native")
    /\ la_a \in LuFactors
    /\ IF la_op = "lu_inv" THEN la_b = <<>>
       ELSE /\ la_b \in RightHandSides(la_a.p.m)
            /\ (la_b.kind = "vector") => (la_b.v.n = 1)
    /\ la_pc = "start"
    /\ la_ret = <<>>

\* LUDec::solve for a vector and for a matrix right-hand side
LuSolveCall ==
    /\ UNCHANGED <<odeVars, ieVars, chVars>>
    /\ la_op = "lu_solve" /\ la_pc = "start"
    /\ la_a.p.n = la_b.v.m
    /\ la_ret' = [ok |-> TRUE, x |-> LuSolve(la_a, la_b.v)]
    /\ la_pc' = "done"
    /\ UNCHANGED <<la_op, la_backend, la_a, la_b>>

\* LUDec::inv: the assertion holds for a permutation matrix
LuInvCall ==
    /\ UNCHANGED <<odeVars, ieVars, chVars>>
    /\ la_op = "lu_inv" /\ la_pc = "start"
    /\ la_a.p.m = la_a.p.n
    /\ la_ret' = [ok |-> TRUE, x |-> LuSolve(la_a, MatOne(la_a.p.m))]
    /\ la_pc' = "done"
    /\ UNCHANGED <<la_op, la_backend, la_a, la_b>>

\* Matrix::solve for a vector and for a matrix right-hand side
SolveCall ==
    /\ UNCHANGED <<odeVars, ieVars, chVars>>
    /\ la_op = "solve" /\ la_pc = "start"
    /\ la_a.p.n = la_b.v.m
    /\ la_ret' = MatrixSolve(la_backend, la_a, la_b)
    /\ la_pc' = "done"
    /\ UNCHANGED <<la_op, la_backend, la_a, la_b>>

NextSolve ==
    \/ LuSolveCall
    \/ LuInvCall
    \/ SolveCall

SpecSolve == InitSolve /\ [][NextSolve]_vars

\* ------------------------------------------------------------------------
\* Arithmetic operators of Matrix
\* ------------------------------------------------------------------------
\* &Matrix + &Matrix: the dimension of self and the sums of the zipped
\* elements, as many as the shorter of the two data vectors has
MatAdd(a, b) ==
    [m |-> a.m, n |-> a.n,
     data |-> [idx \in 1..(IF Len(a.data) <= Len(b.data) THEN Len(a.data) ELSE Len(b.data)) |->
                 a.data[idx] + b.data[idx]]]

\* An assignment that leaves self as it was.
MatAddAssignKeep(a, b) == a

\* Matrix += Matrix: the zipped elements of self are increased in place
MatAddAssign(a, b) ==
    [a EXCEPT !.data = [idx \in DOMAIN a.data |->
        IF idx <= Len(b.data) THEN a.data[idx] + b.data[idx] ELSE a.data[idx]]]

\* &mut Matrix + &T, Matrix + T, Matrix += T: rhs is added to every element
MatAddScalar(a, k) == [a EXCEPT !.data = [idx \in DOMAIN a.data |-> a.data[idx] + k]]

InitArith ==
    /\ OdeIdle /\ IeIdle /\ ChIdle
    /\ la_op \in {"add", "add_assign", "add_scalar", "add_assign_scalar",
                  "mul", "mul_in_place", "mul_scalar",
                  "index", "get", "get_mut"}
    /\ la_backend = "native"
    /\ \E rows \in 1..MaxDim, cols \in 1..MaxDim :
         \E e \in {<<One, 0, 2 * One>>, <<-One, One, 3 * One>>} :
             la_a = GenMatrix(rows, cols, e, 1, 2)
    /\ IF la_op \in {"add_scalar", "add_assign_scalar", "mul_scalar"}
       THEN la_b \in {0, -One, 2 * One}
       ELSE IF la_op \in {"index", "get", "get_mut"}
       THEN la_b \in (0..MaxDim) \X (0..MaxDim)
       ELSE \E rows \in 1..MaxDim, cols \in 1..MaxDim :
              \E e \in {<<One, One, -One>>, <<0, 2 * One, One>>} :
                  la_b = GenMatrix(rows, cols, e, 1, 1)
    /\ la_pc = "start"
    /\ la_ret = <<>>

\* Matrix + Matrix and &Matrix + &Matrix; the assertion on the dimensions is
\* commented out
AddCall ==
    /\ UNCHANGED <<odeVars, ieVars, chVars>>
    /\ la_op = "add" /\ la_pc = "start"
    /\ la_ret' = [a |-> la_a, b |-> la_b, out |-> MatAdd(la_a, la_b)]
    /\ la_pc' = "done"
    /\ UNCHANGED <<la_op, la_backend, la_a, la_b>>

\* Matrix += Matrix
AddAssignCall ==
    /\ UNCHANGED <<odeVars, ieVars, chVars>>
    /\ la_op = "add_assign" /\ la_pc = "start"
    /\ la_ret' = [a |-> MatAddAssign(la_a, la_b), b |-> la_b,
                  out |-> MatAddAssign(la_a, la_b)]
    /\ la_pc' = "done"
    /\ UNCHANGED <<la_op, la_backend, la_a, la_b>>

\* Matrix + T (through &mut Matrix + &T) and Matrix += T
AddScalarCall ==
    /\ UNCHANGED <<odeVars, ieVars, chVars>>
    /\ la_op \in {"add_scalar", "add_assign_scalar"} /\ la_pc = "start"
    /\ la_ret' = [a |-> MatAddScalar(la_a, la_b), b |-> la_b,
                  out |-> MatAddScalar(la_a, la_b)]
    /\ la_pc' = "done"
    /\ UNCHANGED <<la_op, la_backend, la_a, la_b>>

\* Matrix * Matrix and &Matrix * &Matrix
MulCall ==
    /\ UNCHANGED <<odeVars, ieVars, chVars>>
    /\ la_op = "mul" /\ la_pc = "start"
    /\ IF la_a.n # la_b.m
       THEN la_pc' = "panic" /\ la_ret' = [a |-> la_a, b |-> la_b, out |-> <<>>]
       ELSE la_pc' = "done"
            /\ la_ret' = [a |-> la_a, b |-> la_b, out |-> MatMul(la_a, la_b)]
    /\ UNCHANGED <<la_op, la_backend, la_a, la_b>>

\* &mut Matrix * &Matrix: self.data = prod.data; self.m = l_rows;
\* self.n = r_cols
MulInPlaceCall ==
    /\ UNCHANGED <<odeVars, ieVars, chVars>>
    /\ la_op = "mul_in_place" /\ la_pc = "start"
    /\ IF la_a.n # la_b.m
       THEN la_pc' = "panic" /\ la_ret' = [a |-> la_a, b |-> la_b, out |-> <<>>]
       ELSE la_pc' = "done"
            /\ la_ret' = [a |-> MatMulInPlace(la_a, la_b), b |-> la_b,
                          out |-> MatMulInPlace(la_a, la_b)]
    /\ UNCHANGED <<la_op, la_backend, la_a, la_b>>

\* Matrix * T and &Matrix * &T
MulScalarCall ==
    /\ UNCHANGED <<odeVars, ieVars, chVars>>
    /\ la_op = "mul_scalar" /\ la_pc = "start"
    /\ la_ret' = [a |-> la_a, b |-> la_b, out |-> MatScale(la_a, la_b)]
    /\ la_pc' = "done"
    /\ UNCHANGED <<la_op, la_backend, la_a, la_b>>

\* m[[i, j]] with [i, j] = la_b: &self.data[index[1] * self.m + index[0]];
\* the only test is that of the Vec on the position
IndexCall ==
    /\ UNCHANGED <<odeVars, ieVars, chVars>>
    /\ la_op = "index" /\ la_pc = "start"
    /\ IF la_b[2] * la_a.m + la_b[1] < Len(la_a.data)
       THEN la_pc' = "done"
            /\ la_ret' = [a |-> la_a, b |-> la_b,
                          out |-> MatIndex(la_a, la_b[1], la_b[2])]
       ELSE la_pc' = "panic" /\ la_ret' = [a |-> la_a, b |-> la_b, out |-> <<>>]
    /\ UNCHANGED <<la_op, la_backend, la_a, la_b>>

\* *m.get(i, j) with (i, j) = la_b: assert!(i < self.m); assert!(j < self.n)
GetCall ==
    /\ UNCHANGED <<odeVars, ieVars, chVars>>
    /\ la_op = "get" /\ la_pc = "start"
    /\ IF la_b[1] < la_a.m /\ la_b[2] < la_a.n
       THEN la_pc' = "done"
            /\ la_ret' = [a |-> la_a, b |-> la_b,
                          out |-> MatGet(la_a, la_b[1], la_b[2])]
       ELSE la_pc' = "panic" /\ la_ret' = [a |-> la_a, b |-> la_b, out |-> <<>>]
    /\ UNCHANGED <<la_op, la_backend, la_a, la_b>>

\* *m.get_mut(i, j) = 9 with (i, j) = la_b:
\* &mut (self.data[j * self.m + i]); the only test is that of the Vec on the
\* position
GetMutCall ==
    /\ UNCHANGED <<odeVars, ieVars, chVars>>
    /\ la_op = "get_mut" /\ la_pc = "start"
    /\ IF la_b[2] * la_a.m + la_b[1] < Len(la_a.data)
       THEN la_pc' = "done"
            /\ la_ret' = [a |-> MatSet(la_a, la_b[1], la_b[2], 9 * One),
                          b |-> la_b, out |-> 9 * One]
       ELSE la_pc' = "panic" /\ la_ret' = [a |-> la_a, b |-> la_b, out |-> <<>>]
    /\ UNCHANGED <<la_op, la_backend, la_a, la_b>>

NextArith ==
    \/ AddCall
    \/ AddAssignCall
    \/ AddScalarCall
    \/ MulCall
    \/ MulInPlaceCall
    \/ MulScalarCall
    \/ IndexCall
    \/ GetCall
    \/ GetMutCall

SpecArith == InitArith /\ [][NextArith]_vars

\* ------------------------------------------------------------------------
\* Polynomial arithmetic
\* ------------------------------------------------------------------------
\* Largest number of coefficients of the polynomials explored.
MaxCoef == 3

\* A polynomial is the sequence coef of its coefficients, coef[i + 1] being
\* the coefficient of x^i; degree() is coef.len() - 1.

\* &Polynomial + &Polynomial: the longer coefficient vector (rhs when the
\* lengths are equal), its zipped prefix overwritten by a_i + b_i
PolyAdd(a, b) ==
    [i \in 1..Max2(Len(a), Len(b)) |->
        IF i <= Len(a) /\ i <= Len(b) THEN a[i] + b[i]
        ELSE IF Len(a) > Len(b) THEN a[i] ELSE b[i]]

\* &Polynomial - &Polynomial: the longer coefficient vector (rhs when the
\* lengths are equal), its zipped prefix overwritten by a_i - b_i
PolySub(a, b) ==
    [i \in 1..Max2(Len(a), Len(b)) |->
        IF i <= Len(a) /\ i <= Len(b) THEN a[i] - b[i]
        ELSE IF Len(a) > Len(b) THEN a[i] ELSE b[i]]

\* -&Polynomial
PolyNeg(a) == [i \in 1..Len(a) |-> -a[i]]

\* the sum over the first i coefficients a_t of a of a_t * b_(k - t)
RECURSIVE PolyMulSum(_, _, _, _)
PolyMulSum(a, b, k, i) ==
    IF i = 0 THEN 0
    ELSE PolyMulSum(a, b, k, i - 1)
         + (IF k - (i - 1) >= 0 /\ k - (i - 1) < Len(b)
            THEN FMul(a[i], b[k - (i - 1) + 1]) ELSE 0)

\* &Polynomial * &Polynomial: res[i + j] += v_i * v_j
PolyMul(a, b) ==
    [k \in 1..(Len(a) + Len(b) - 1) |-> PolyMulSum(a, b, k - 1, Len(a))]

\* A reduction that removes nothing.
ReduceCoefKeep(coef) == coef

\* Polynomial::reduce_coef: trailing coefficients within default_epsilon of
\* zero are popped, the coefficient of x^0 is kept. The machine epsilon lies
\* below the resolution of the scalars, so the test is equality with 0.
RECURSIVE ReduceCoef(_)
ReduceCoef(coef) ==
    IF Len(coef) > 1 /\ coef[Len(coef)] = 0
    THEN ReduceCoef(SubSeq(coef, 1, Len(coef) - 1))
    ELSE coef

\* the loop of Div over i = quotient_degree, ..., 0 and the return
RECURSIVE PolyDivFrom(_, _, _, _)
PolyDivFrom(remainder, quotient, b, i) ==
    IF i < 0 THEN <<quotient, ReduceCoef(remainder)>>
    ELSE LET db == Len(b) - 1
             q == XDiv(remainder[db + i + 1], b[db + 1])
             rem2 == [k \in 1..Len(remainder) |->
                        IF k - 1 >= i /\ k - 1 <= i + db
                        THEN XSub(remainder[k], XMul(b[k - i], q))
                        ELSE remainder[k]]
         IN  PolyDivFrom(rem2, [quotient EXCEPT ![i + 1] = q], b, i - 1)

\* &Polynomial / &Polynomial: the pair (quotient, remainder)
PolyDiv(a, b) ==
    IF Len(b) - 1 > Len(a) - 1 THEN <<(<<0>>), a>>
    ELSE PolyDivFrom(a, [i \in 1..(Len(a) - Len(b) + 1) |-> 0], b, Len(a) - Len(b))

\* the polynomials from_coef creates from 1..MaxCoef of the coefficients e
PolyInputs(e) == UNION { [1..len -> e] : len \in 1..MaxCoef }

InitPoly ==
    /\ OdeIdle /\ IeIdle /\ ChIdle
    /\ la_op \in {"poly_sub", "poly_div"}
    /\ la_backend = "native"
    /\ la_a \in PolyInputs({-2 * One, 0, 3 * One})
    /\ la_b \in PolyInputs({-One, 0, 3 * One})
    /\ la_pc = "start"
    /\ la_ret = <<>>

\* &a - &b (a - b delegates to it)
PolySubCall ==
    /\ UNCHANGED <<odeVars, ieVars, chVars>>
    /\ la_op = "poly_sub" /\ la_pc = "start"
    /\ la_ret' = [a |-> la_a, b |-> la_b, out |-> PolySub(la_a, la_b)]
    /\ la_pc' = "done"
    /\ UNCHANGED <<la_op, la_backend, la_a, la_b>>

\* &a / &b
PolyDivCall ==
    /\ UNCHANGED <<odeVars, ieVars, chVars>>
    /\ la_op = "poly_div" /\ la_pc = "start"
    /\ la_ret' = [a |-> la_a, b |-> la_b, out |-> PolyDiv(la_a, la_b)]
    /\ la_pc' = "done"
    /\ UNCHANGED <<la_op, la_backend, la_a, la_b>>

NextPoly ==
    \/ PolySubCall
    \/ PolyDivCall

SpecPoly == InitPoly /\ [][NextPoly]_vars

\* ------------------------------------------------------------------------
\* Properties of the adaptive integrators
\* ------------------------------------------------------------------------
\* an iteration of the loop of AdaptiveStepper::solve is being taken
ASIteration == solver = "adaptive" /\ calls' = calls + 1

\* the clipped step size an iteration proposes
Proposed == IF h = NaN \/ h > prob.t_stop - t_n THEN prob.t_stop - t_n ELSE h

\* C1: no time recorded in the time vector of AdaptiveStepper::solve or of
\* DormandPrince54::solve exceeds t_stop.
StepClipping == \A i \in 1..Len(t_vec) : t_vec[i] <= prob.t_stop

\* C1 witness: a solve whose initial step size exceeds the time span has
\* ended after recording at least two steps, the last one at t_stop.
StepClippingWitness ==
    /\ pc = "done" /\ Len(t_vec) >= 3
    /\ cfg.h_0 > prob.t_stop - prob.t_start
    /\ Last(t_vec) = prob.t_stop

\* C2: an iteration of AdaptiveStepper::solve accepts its step exactly when
\* the error norm is <= 1: then t_n advances by the proposed step, x_n becomes
\* the new estimate, the pair is appended and n grows by one; when error > 1
\* t_n, x_n, n and both trajectory vectors are unchanged.
AcceptRule ==
    [][ASIteration =>
         IF err' <= One
         THEN /\ t_n' = t_n + Proposed
              /\ x_n' = y_new'
              /\ t_vec' = Append(t_vec, t_n')
              /\ res_vec' = Append(res_vec, x_n')
              /\ n' = n + 1
         ELSE /\ err' > One
              /\ UNCHANGED <<t_n, x_n, n, t_vec, res_vec>>]_vars

\* C2 witness: AdaptiveStepper::solve has both rejected and accepted steps,
\* the last one accepted with an error of exactly 1.
AcceptRuleWitness ==
    /\ solver = "adaptive" /\ n >= 1 /\ calls > n
    /\ err = One /\ x_n = y_new /\ Len(t_vec) = n + 1

\* the factor the step size is rescaled with for an error norm e # 0
ClampedFactor(e) ==
    LET q == IF order[1] >= order[2] THEN order[1] ELSE order[2]
        s == FMul(cfg.fac, FRoot(FDiv(One, e), q + 1))
    IN  IF s < cfg.fac_min THEN cfg.fac_min
        ELSE IF s > cfg.fac_max THEN cfg.fac_max ELSE s

\* C3 as stated: after every proposed step and for every error, error = 0
\* included (where fac * error^(-1/(q+1)) is infinite and clamps to fac_max),
\* h is replaced by s * h.
RescaleAlways ==
    [][ASIteration =>
         h' = FMul(IF err' = 0 THEN cfg.fac_max ELSE ClampedFactor(err'),
                   Proposed)]_vars

\* C3 amended: after every proposed step, accepted or rejected, with an error
\* norm other than 0, h is replaced by s * h with s = fac * error^(-1/(q+1))
\* clamped into [fac_min, fac_max], q the larger of the two orders; after a
\* step with error = 0 the proposed (clipped) step size is kept.
RescaleRule ==
    [][ASIteration =>
         h' = IF err' = 0 THEN Proposed
              ELSE FMul(ClampedFactor(err'), Proposed)]_vars

\* C3 witness: AdaptiveStepper::solve has proposed a step with error 0 after
\* a rejected step, and the step size is positive.
RescaleRuleWitness ==
    /\ solver = "adaptive" /\ calls >= 2 /\ calls > n /\ n >= 1
    /\ err = 0 /\ h > 0

\* C4: do_step is invoked at most n_max times in one solve call.
CallsWithinBudget == calls <= cfg.n_max

\* C5: DormandPrince54::solve returns Err exactly when its loop ends before
\* t_stop, which takes n_max accepted steps; when it returns Ok the last
\* recorded time equals t_stop.
DPErrIffShort ==
    (solver = "dp54" /\ pc = "done") =>
        /\ (ret = "Err") <=> (Last(t_vec) < prob.t_stop)
        /\ (ret = "Err") => n = cfg.n_max
        /\ (ret = "Ok") => Last(t_vec) = prob.t_stop
        /\ ret \in {"Ok", "Err"}

\* C5 witness: DormandPrince54::solve has returned Err after accepted and
\* rejected steps.
DPErrIffShortWitness ==
    /\ solver = "dp54" /\ pc = "done" /\ ret = "Err"
    /\ n >= 1 /\ calls > n

\* C6: no adaptive stepper returns Ok with a trajectory that ends before
\* t_stop.
NoSilentTruncation ==
    (pc = "done" /\ ret = "Ok") => Last(t_vec) >= prob.t_stop

RECURSIVE SumSqAll(_, _, _)
SumSqAll(s, sh, i) ==
    IF i > Len(s) THEN 0
    ELSE LET sc == cfg.abs_tol + FMul(Max2(Abs(s[i]), Abs(sh[i])), cfg.rel_tol)
             k == FDiv(s[i] - sh[i], sc)
         IN  FMul(k, k) + SumSqAll(s, sh, i + 1)

\* C7: the error norm of AdaptiveStepper::calc_error is the root of the mean,
\* over all k components of the state, of the squared scaled differences.
ErrorCombinesAllComponents ==
    (solver = "adaptive" /\ calls >= 1) =>
        err = FRoot(FDiv(SumSqAll(y_new.data, y_hat.data, 1),
                         FromRatio(Len(y_new.data), 1)), 2)


\* ------------------------------------------------------------------------
\* Properties of the implicit Euler method
\* ------------------------------------------------------------------------

\* C8: when the root finder fails to converge, the failure is returned as Err
\* from ImplicitEuler::solve and the call does not panic.
NonConvergenceReturned ==
    (ie_root = "Err") => (ie_pc # "panic" /\ (ie_pc = "done" => ie_ret = "Err"))

\* C9: in a step from (t_n, x_n) with the step size h the helper evaluates
\* g(z) = x_n + h * f(t_n + h, z) - z, its Jacobian is
\* h * J_f(t_n + h, z) - I of the dimension of the state, and the root search
\* starts from x_n.
HelperIsBackwardEuler ==
    (ie_pc = "newton") =>
        LET hh == ie_helper.h
            tt == ie_t + hh
            k == Len(ie_x.data)
            g == HelperEval(ie_prob, ie_helper, ie_z)
            jac == HelperJacobian(ie_prob, ie_helper, ie_z)
        IN  /\ ie_guess = ie_x
            /\ (ie_iter = 0 => ie_z = ie_x)
            /\ \A i \in 1..k :
                 g.data[i] = ie_x.data[i]
                             + FMul(IEFunc(ie_prob, tt, ie_z).data[i], hh)
                             - ie_z.data[i]
            /\ jac.m = k /\ jac.n = k
            /\ \A i \in 0..(k - 1) : \A j \in 0..(k - 1) :
                 MatGet(jac, i, j)
                   = FMul(MatGet(IEJacobianF(ie_prob, tt, ie_z), i, j), hh)
                     - (IF i = j THEN One ELSE 0)

\* A second step of a two-component, time-dependent, nonlinear problem whose
\* root search has left its start value.
HelperIsBackwardEulerWitness ==
    /\ ie_pc = "newton"
    /\ ie_t > ie_prob.t_start
    /\ Len(ie_x.data) = 2
    /\ ie_prob.b # 0 /\ ie_prob.c # 0
    /\ ie_iter >= 1
    /\ ie_z # ie_x

\* ------------------------------------------------------------------------
\* Properties of the Cholesky decomposition
\* ------------------------------------------------------------------------

\* C10: dec_cholesky returns None when the matrix is not positive definite,
\* that is when a diagonal term is not positive, on the portable path and on
\* the native-library path.
NonPositiveDefiniteIsNone ==
    (ch_pc = "done" /\ ch_ret.nonpos) => ~ch_ret.some


\* the rows 1..k and columns 1..k of a, as a sequence of rows of whole numbers
LeadingRows(a, k) ==
    [i \in 1..k |-> [j \in 1..k |-> MatGet(a, i - 1, j - 1) \div One]]

\* rows without the first row and without the column j
MinorRows(rows, j) ==
    [r \in 1..(Len(rows) - 1) |->
        [c \in 1..(Len(rows) - 1) |-> rows[r + 1][IF c < j THEN c ELSE c + 1]]]

\* determinant by expansion along the first row, the columns j..Len(rows)
RECURSIVE Det(_)
RECURSIVE DetFrom(_, _)
DetFrom(rows, j) ==
    IF j > Len(rows) THEN 0
    ELSE (IF j % 2 = 1 THEN 1 ELSE -1) * rows[1][j] * Det(MinorRows(rows, j))
         + DetFrom(rows, j + 1)

Det(rows) == IF Len(rows) = 1 THEN rows[1][1] ELSE DetFrom(rows, 1)

IsSymmetric(a) ==
    /\ a.m = a.n
    /\ \A i \in 0..(a.n - 1) : \A j \in 0..(a.n - 1) : MatGet(a, i, j) = MatGet(a, j, i)

\* symmetric with positive leading principal minors (Sylvester's criterion)
IsSPD(a) ==
    /\ a.n >= 1
    /\ IsSymmetric(a)
    /\ \A k \in 1..a.n : Det(LeadingRows(a, k)) > 0

\* the entry (i, j) of l * l^T
RECURSIVE LLtSum(_, _, _, _)
LLtSum(l, i, j, k) ==
    IF k = 0 THEN 0
    ELSE LLtSum(l, i, j, k - 1) + FMul(MatGet(l, i, k - 1), MatGet(l, j, k - 1))

\* the rounding allowed in an entry of l * l^T: a unit per product and root
RoundTol == 2 * MaxDim

\* C11: for every symmetric positive-definite n x n matrix A dec_cholesky
\* returns Some(L) with L n x n, zero above the diagonal, built by the
\* row-by-row formula, and L * L^T = A up to the rounding of the scalars.
CholeskyFactorizes ==
    (ch_pc = "done" /\ IsSPD(ch_a)) =>
        LET l == ch_ret.l
            k == ch_a.n
        IN  /\ ch_ret.some
            /\ l.m = k /\ l.n = k /\ Len(l.data) = k * k
            /\ \A i \in 0..(k - 1) : \A j \in 0..(k - 1) :
                 /\ (j > i) => MatGet(l, i, j) = 0
                 /\ (j = i) => MatGet(l, i, i)
                                 = FRoot(MatGet(ch_a, i, i) - LLtSum(l, i, i, i), 2)
                 /\ (j < i) => MatGet(l, i, j)
                                 = FDiv(MatGet(ch_a, i, j) - LLtSum(l, i, j, j),
                                        MatGet(l, j, j))
                 /\ Abs(LLtSum(l, i, j, k) - MatGet(ch_a, i, j)) <= RoundTol

\* a positive-definite matrix of dimension 3 with non-zero entries off the
\* diagonal has been decomposed
CholeskyFactorizesWitness ==
    /\ ch_pc = "done"
    /\ IsSPD(ch_a)
    /\ ch_a.n = 3
    /\ MatGet(ch_a, 1, 0) # 0 /\ MatGet(ch_a, 2, 0) # 0
    /\ ch_ret.some


\* ------------------------------------------------------------------------
\* Properties of the decompositions
\* ------------------------------------------------------------------------

QrShapes ==
    (la_op = "dec_qr" /\ la_pc = "done") =>
        LET q == la_ret.q
            r == la_ret.r
        IN  /\ q.m = la_a.m /\ q.n = la_a.n /\ Len(q.data) = q.m * q.n
            /\ r.m = la_a.n /\ r.n = la_a.n /\ Len(r.data) = r.m * r.n
            /\ \A i \in 0..(r.m - 1) : \A j \in 0..(r.n - 1) :
                 (i > j) => MatIndex(r, i, j) = 0
            /\ q.n = r.m


\* the rounding allowed in an entry of H and of Q * H * Q^T
HessTol == 4 * MaxDim

\* C15: for every square non-empty matrix A dec_hessenberg returns (Q, H) of
\* the dimension of A with H[i, k] = 0 for all i >= k + 2 and
\* Q * H * Q^T = A, up to the rounding of the scalars.
HessenbergSimilarity ==
    (la_op = "dec_hessenberg" /\ la_pc = "done") =>
        LET q == la_ret.q
            hh == la_ret.h
            k == la_a.m
            back == MatMul(MatMul(q, hh), MatTranspose(q))
        IN  /\ q.m = k /\ q.n = k /\ Len(q.data) = k * k
            /\ hh.m = k /\ hh.n = k /\ Len(hh.data) = k * k
            /\ \A i \in 0..(k - 1) : \A j \in 0..(k - 1) :
                 /\ (i >= j + 2) => Abs(MatIndex(hh, i, j)) <= HessTol
                 /\ Abs(MatIndex(back, i, j) - MatIndex(la_a, i, j)) <= HessTol

\* a matrix of dimension 3 with a first column that is not zero below the
\* subdiagonal has been reduced
HessenbergSimilarityWitness ==
    /\ la_op = "dec_hessenberg" /\ la_pc = "done"
    /\ la_a.m = 3
    /\ MatIndex(la_a, 2, 0) # 0 /\ MatIndex(la_a, 1, 0) # 0
    /\ la_ret.q # MatOne(3)


\* ------------------------------------------------------------------------
\* Properties of the solution of linear systems
\* ------------------------------------------------------------------------

\* the factored matrix is singular: u has a zero on its diagonal
Singular(f) == \E i \in 0..(f.u.m - 1) : MatIndex(f.u, i, i) = 0

\* the rounding allowed in an entry of a * x
LuTol == 2 * MaxDim

\* C16: LUDec::solve, for a vector and for a matrix right-hand side,
\* computes x = backward_substitute(u, forward_substitute(l, p * rhs)) in this
\* order, and for the factors of a nonsingular a the result satisfies
\* a * x = rhs up to the rounding of the scalars.
LuSolveSolves ==
    (la_op = "lu_solve" /\ la_pc = "done") =>
        /\ la_ret.ok
        /\ la_ret.x = Substitute(la_a.u,
                                 Substitute(la_a.l, MatMul(la_a.p, la_b.v), 0, 1),
                                 la_a.u.m - 1, -1)
        /\ ~Singular(la_a) =>
             LET ax == MatMul(FactoredMatrix(la_a), la_ret.x)
             IN  /\ la_ret.x.m = la_b.v.m /\ la_ret.x.n = la_b.v.n
                 /\ \A idx \in DOMAIN la_b.v.data :
                      Abs(ax.data[idx] - la_b.v.data[idx]) <= LuTol

\* a system of dimension 3 with exchanged rows, a matrix right-hand side and
\* a lower factor that is not the identity has been solved
LuSolveSolvesWitness ==
    /\ la_op = "lu_solve" /\ la_pc = "done"
    /\ ~Singular(la_a)
    /\ la_a.p.m = 3 /\ la_a.p # MatOne(3) /\ la_a.l # MatOne(3)
    /\ la_b.kind = "matrix" /\ la_b.v.n = 2
    /\ la_ret.ok


\* C17: LUDec::inv returns the error outcome whenever the factored matrix is
\* singular, that is whenever u has a zero on its diagonal, and a matrix only
\* for nonsingular factors.
LuInvFailsWhenSingular ==
    (la_op = "lu_inv" /\ la_pc = "done") => (la_ret.ok <=> ~Singular(la_a))

\* C18: Matrix::solve, for a vector and for a matrix right-hand side and
\* under both features, returns None for every singular a and Some only for
\* a nonsingular a.
SolveNoneWhenSingular ==
    (la_op = "solve" /\ la_pc = "done") => (la_ret.ok <=> ~Singular(la_a))

\* C19: for a matrix right-hand side Matrix::solve has the outcome of the
\* vector solves of the columns, and column j of its result is the result of
\* the vector solve of column j.
SolveFormsAgree ==
    (la_op = "solve" /\ la_pc = "done" /\ la_b.kind = "matrix") =>
        \A j \in 0..(la_b.v.n - 1) :
            LET col == MatrixSolve(la_backend, la_a,
                                   [kind |-> "vector", v |-> GetColumn(la_b.v, j)])
            IN  /\ col.ok = la_ret.ok
                /\ la_ret.ok => GetColumn(la_ret.x, j) = col.x


\* ------------------------------------------------------------------------
\* Properties of the arithmetic operators of Matrix
\* ------------------------------------------------------------------------

\* C20: every Matrix produced or modified by an arithmetic operator that
\* returns satisfies data.len() == rows * cols, also for operands of
\* different dimensions.
DataLenInvariant ==
    (la_op \in {"add", "add_assign", "add_scalar", "add_assign_scalar",
                "mul", "mul_in_place", "mul_scalar"} /\ la_pc = "done") =>
        /\ Len(la_ret.out.data) = la_ret.out.m * la_ret.out.n
        /\ Len(la_ret.a.data) = la_ret.a.m * la_ret.a.n

\* the sum over t in 0..k of a.data[t * rows(a) + i] * b.data[j * rows(b) + t]
RECURSIVE EntrySum(_, _, _, _, _)
EntrySum(a, b, i, j, k) ==
    IF k = 0 THEN 0
    ELSE EntrySum(a, b, i, j, k - 1)
         + a.data[(k - 1) * a.m + i + 1] * b.data[j * b.m + (k - 1) + 1]

\* C21: &A * &B panics exactly when the column count of A differs from the
\* row count of B; otherwise it returns the rows(A) x cols(B) matrix whose
\* entry (i, j), stored at data[j * rows + i], is the sum over t of
\* A[i, t] * B[t, j] (rounded to the precision of the scalars), and neither
\* operand is modified.
ProductIsRowTimesColumn ==
    (la_op = "mul" /\ la_pc \in {"done", "panic"}) =>
        /\ (la_pc = "panic") <=> (la_a.n # la_b.m)
        /\ la_ret.a = la_a /\ la_ret.b = la_b
        /\ la_pc = "done" =>
              /\ la_ret.out.m = la_a.m /\ la_ret.out.n = la_b.n
              /\ Len(la_ret.out.data) = la_a.m * la_b.n
              /\ \A i \in 0..(la_a.m - 1), j \in 0..(la_b.n - 1) :
                    2 * Abs(la_ret.out.data[j * la_a.m + i + 1] * One
                            - EntrySum(la_a, la_b, i, j, la_a.n)) <= One

\* C21 witness: a product of two non-square matrices, of a shape that is
\* not square either, has returned with a nonzero entry.
ProductIsRowTimesColumnWitness ==
    /\ la_op = "mul" /\ la_pc = "done"
    /\ la_a.m # la_a.n /\ la_b.m # la_b.n /\ la_a.m # la_b.n
    /\ \E idx \in DOMAIN la_ret.out.data : la_ret.out.data[idx] # 0

AdditionElementwise ==
    LET same == la_a.m = la_b.m /\ la_a.n = la_b.n
        sum  == [m |-> la_a.m, n |-> la_a.n,
                 data |-> [idx \in 1..(la_a.m * la_a.n) |->
                             la_a.data[idx] + la_b.data[idx]]]
    IN  /\ (la_op = "add" /\ la_pc = "done" /\ same) =>
              /\ la_ret.out.m = la_a.m /\ la_ret.out.n = la_a.n
              /\ \A i \in 0..(la_a.m - 1), j \in 0..(la_a.n - 1) :
                    MatGet(la_ret.out, i, j) = MatGet(la_a, i, j) + MatGet(la_b, i, j)
        /\ (la_op = "add_assign" /\ la_pc = "done" /\ same) =>
              la_ret.a = sum
        /\ (la_op = "add_assign_scalar" /\ la_pc = "done") =>
              /\ la_ret.a.m = la_a.m /\ la_ret.a.n = la_a.n
              /\ Len(la_ret.a.data) = Len(la_a.data)
              /\ \A idx \in DOMAIN la_a.data :
                    la_ret.a.data[idx] = la_a.data[idx] + la_b

\* C23 witness: A += B has returned for non-square operands of equal
\* dimension and has changed A.
AdditionElementwiseWitness ==
    /\ la_op = "add_assign" /\ la_pc = "done"
    /\ la_a.m = la_b.m /\ la_a.n = la_b.n /\ la_a.m # la_a.n
    /\ la_ret.a # la_a

\* ------------------------------------------------------------------------
\* Properties of the construction of an AdaptiveStepper
\* ------------------------------------------------------------------------

\* C24: AdaptiveStepper::default() creates a stepper whose absolute tolerance
\* is 1e-6 and whose relative tolerance is 1e-3.
DefaultTolerancesDocumented ==
    (pc = "constructed" /\ cfg.call = "default") =>
        /\ cfg.stepper.abs_tol = Decimal(1, -6)
        /\ cfg.stepper.rel_tol = Decimal(1, -3)

\* ------------------------------------------------------------------------
\* Properties of the stages of DormandPrince54::do_step
\* ------------------------------------------------------------------------

\* C25: in every iteration of DormandPrince54::solve the second stage of
\* do_step evaluates the derivative function at the time t_n + h/5 and at
\* the state x_n + k_1/5 (each up to one unit of rounding).
SecondStageAsCommented ==
    (solver = "dp54" /\ pc = "loop" /\ LoopCond) =>
        LET h_n == Clip(h, prob.t_stop - t_n)
            k_1 == VecScale(Func(prob, t_n, x_n), h_n)
        IN  /\ Abs(DPStage2Time(t_n, h_n) - (t_n + SDiv(h_n, 5))) <= 1
            /\ \A i \in DOMAIN x_n.data :
                  Abs(DPStage2State(x_n, k_1).data[i]
                      - (x_n.data[i] + SDiv(k_1.data[i], 5))) <= 1

\* ------------------------------------------------------------------------
\* Properties of the polynomial arithmetic
\* ------------------------------------------------------------------------
\* the coefficient of x^i of a polynomial, 0 beyond its degree
CoefAt(c, i) == IF i + 1 <= Len(c) THEN c[i + 1] ELSE 0

\* C26: for polynomials a and b of any degrees the coefficient of x^i in
\* a - b is a_i - b_i, a missing coefficient taken as 0, and a - b equals
\* a + (-b).
SubtractionCoefficientwise ==
    (la_op = "poly_sub" /\ la_pc = "done") =>
        /\ Len(la_ret.out) = Max2(Len(la_a), Len(la_b))
        /\ \A i \in 0..(Len(la_ret.out) - 1) :
              la_ret.out[i + 1] = CoefAt(la_a, i) - CoefAt(la_b, i)
        /\ la_ret.out = PolyAdd(la_a, PolyNeg(la_b))

HessenbergLoop ==
    [][(la_op = "dec_hessenberg" /\ la_backend = "native") =>
         /\ (la_pc = "start" /\ la_pc' = "loop") =>
               /\ la_ret'.k = 1
               /\ la_ret'.q = MatOne(la_a.m)
               /\ la_ret'.h = la_a
         /\ (la_pc = "loop" /\ la_pc' = "loop") =>
               LET P == Householder(GetColumn(la_ret.h, la_ret.k - 1), la_ret.k)
               IN  /\ la_ret.k >= 1 /\ la_ret.k <= la_a.m - 1
                   /\ la_ret'.k = la_ret.k + 1
                   /\ la_ret'.h = MatMul(MatMul(P, la_ret.h), MatTranspose(P))
                   /\ la_ret'.q = MatMul(P, la_ret.q)
         /\ (la_pc = "loop" /\ la_pc' = "done") =>
               /\ la_ret.k = la_a.m
               /\ la_ret'.q = MatTranspose(la_ret.q)
               /\ la_ret'.h = la_ret.h
               /\ la_a.m = 1 => (la_ret'.q = MatOne(1) /\ la_ret'.h = la_a)]_vars

\* C28 witness: the native dec_hessenberg has returned for a 3 x 3 matrix
\* after its two passes, the second of which read a column that the first
\* had changed.
HessenbergLoopWitness ==
    /\ la_op = "dec_hessenberg" /\ la_backend = "native" /\ la_pc = "done"
    /\ la_a.m = 3 /\ la_ret.k = 3
    /\ LET first == HessStep([h |-> la_a, q |-> MatOne(3)], 1)
       IN  /\ GetColumn(first.h, 1) # GetColumn(la_a, 1)
           /\ la_ret.h # first.h

\* ------------------------------------------------------------------------
\* Properties of the trajectory of the adaptive integrators
\* ------------------------------------------------------------------------

\* C29: once AdaptiveStepper::solve or DormandPrince54::solve has created
\* its vectors, and in the result, the time vector and the state vector have
\* the same length n + 1 <= n_max + 1 and start with t_start and the initial
\* condition; a step leaves both vectors as they are or appends one entry to
\* each, and a time appended after a positive step size exceeds the last
\* recorded time; for t_start = t_stop the result is the single initial pair,
\* and the call aborts exactly when t_start > t_stop.
TrajectoryShape ==
    /\ [](pc \in {"loop", "done"} =>
            /\ Len(t_vec) = Len(res_vec)
            /\ Len(t_vec) = n + 1
            /\ n <= cfg.n_max
            /\ t_vec[1] = prob.t_start /\ res_vec[1] = prob.init
            /\ \A i \in 1..(Len(t_vec) - 1) :
                  t_vec[i] <= t_vec[i + 1])
    /\ []((pc = "done" /\ prob.t_start = prob.t_stop) =>
            /\ t_vec = <<prob.t_start>> /\ res_vec = <<prob.init>>
            /\ ret = "Ok")
    /\ []((pc # "start") => ((pc = "panic") <=> (prob.t_start > prob.t_stop)))
    /\ [][pc = "loop" =>
            /\ \/ UNCHANGED <<t_vec, res_vec>>
               \/ \E t \in {t_n'}, x \in {x_n'} :
                     /\ t_vec' = Append(t_vec, t)
                     /\ res_vec' = Append(res_vec, x)
            /\ (Len(t_vec') > Len(t_vec) /\ Clip(h, prob.t_stop - t_n) > 0) =>
                  Last(t_vec') > Last(t_vec)]_vars

\* C29 witness: a solve with h_0 > 0 has returned a trajectory of
\* n_max + 1 = 3 pairs with strictly increasing times.
TrajectoryShapeWitness ==
    /\ pc = "done" /\ cfg.h_0 > 0 /\ cfg.n_max = 2
    /\ Len(t_vec) = 3 /\ Len(res_vec) = 3
    /\ t_vec[1] < t_vec[2] /\ t_vec[2] < t_vec[3]

\* ------------------------------------------------------------------------
\* Properties of the element access of Matrix
\* ------------------------------------------------------------------------

\* C30: m[[i, j]] and m.get_mut(i, j) reach an element exactly when
\* i < rows and j < cols and abort otherwise, as m.get(i, j) does; an access
\* that returns reads or writes the element (i, j) and no other.
OneIndexDomain ==
    (la_op \in {"index", "get", "get_mut"} /\ la_pc \in {"done", "panic"}) =>
        LET i == la_b[1]
            j == la_b[2]
        IN  /\ (la_pc = "done") <=> (i < la_a.m /\ j < la_a.n)
            /\ (la_pc = "done" /\ la_op \in {"index", "get"}) =>
                  la_ret.out = MatGet(la_a, i, j)
            /\ (la_pc = "done" /\ la_op = "get_mut") =>
                  \A r \in 0..(la_a.m - 1), c \in 0..(la_a.n - 1) :
                      (r # i \/ c # j) => MatGet(la_ret.a, r, c) = MatGet(la_a, r, c)

====
